---- MODULE Spec2Model ----
(***************************************************************************)
(* Course-management system (pearson): the relational store of courses,    *)
(* lessons, learning outcomes, assessment formats and tools, the web       *)
(* routes, the Google Docs webhook, the Markdown course injector, the      *)
(* sample-data creator, the model-level factories, the CLI export, the     *)
(* JSON API, the Google Docs client, the interop manager and the Google    *)
(* Docs document parser.  Every table is a set of rows;                    *)
(* every handler is one action that runs the whole handler, its commit or  *)
(* rollback included; the syllabus upload, whose temporary file other      *)
(* requests can see, is two actions, split at the save of the file, and    *)
(* the commit of a course by concurrent requests is two actions, the       *)
(* flush of the row and the COMMIT.                                        *)
(***************************************************************************)
EXTENDS Integers, Sequences, FiniteSets, TLC

VARIABLES courses, lessons, outcomes, assessments, tools, assoc, llo, lastOp,
          environment, file, client, req, registry, sessions, temp, txn, raw_document

dbvars == <<courses, lessons, outcomes, assessments, tools, assoc, llo>>
\* what no database operation changes: the ENVIRONMENT setting, the content of
\* the syllabus file, the Google Docs client and the Google document handed to
\* the document parser
envvars == <<environment, file, client, raw_document>>
\* the web requests in progress, the scoped_session registry of the application,
\* the session objects, the content of the temporary upload file and, per
\* request thread, the write its session has flushed and not yet committed
reqvars == <<req, registry, sessions, temp, txn>>
vars == <<courses, lessons, outcomes, assessments, tools, assoc, llo, lastOp,
          environment, file, client, req, registry, sessions, temp, txn, raw_document>>

(***************************************************************************)
(* Bounds.                                                                 *)
(***************************************************************************)
MaxCourseId == 2
MaxChildId == 2

(***************************************************************************)
(* Strings are sequences of one-character strings.                         *)
(***************************************************************************)
Titles == {<<"a", "i">>, <<"a", "i", " ", "d", "b">>}

FormCodes == {<<"P", "Y", "1", "0", "1">>, <<"C", "O", "U", "R", "S", "E", "0", "1">>}

Max(S) == CHOOSE m \in S : \A n \in S : n <= m
Min(S) == CHOOSE m \in S : \A n \in S : m <= n

\* str.upper() on one character, for the letters the titles use
Upper(c) ==
    LET lower == <<"a", "b", "c", "d", "e", "f", "g", "h", "i", "j", "k", "l", "m", "n", "o", "p", "q", "r", "s", "t", "u", "v", "w", "x", "y", "z">>
        upper == <<"A", "B", "C", "D", "E", "F", "G", "H", "I", "J", "K", "L", "M", "N", "O", "P", "Q", "R", "S", "T", "U", "V", "W", "X", "Y", "Z">>
    IN IF \E k \in 1..Len(lower) : lower[k] = c
       THEN upper[CHOOSE k \in 1..Len(lower) : lower[k] = c]
       ELSE c

UpperSeq(s) == [i \in 1..Len(s) |-> Upper(s[i])]

\* s[:n]
Prefix(s, n) == SubSeq(s, 1, IF Len(s) < n THEN Len(s) ELSE n)

\* str.split(): the maximal runs of non-blank characters
RECURSIVE SplitFrom(_, _, _, _)
SplitFrom(s, i, cur, acc) ==
    IF i > Len(s)
    THEN IF cur = <<>> THEN acc ELSE Append(acc, cur)
    ELSE IF s[i] = " "
         THEN SplitFrom(s, i + 1, <<>>, IF cur = <<>> THEN acc ELSE Append(acc, cur))
         ELSE SplitFrom(s, i + 1, Append(cur, s[i]), acc)

\* GoogleDocsWebhookProcessor._generate_course_code
GenerateCourseCode(title) ==
    LET words == SplitFrom(title, 1, <<>>, <<>>) IN
    IF Len(words) >= 2
    THEN UpperSeq(Prefix(words[1], 2)) \o UpperSeq(Prefix(words[2], 2)) \o <<"0", "1">>
    ELSE <<"C", "O", "U", "R", "S", "E", "0", "1">>

(***************************************************************************)
(* The database.  SQLite gives a new row the largest id of its table plus  *)
(* one.                                                                    *)
(***************************************************************************)
NextId(rows) == IF rows = {} THEN 1 ELSE Max({r.id : r \in rows}) + 1

\* a schema whose course_code column is not UNIQUE
CodeNeverTaken(cs, code, selfId) == FALSE

\* the UNIQUE constraint of Course.course_code, raised at flush
CodeTaken(cs, code, selfId) == \E c \in cs : c.code = code /\ c.id # selfId

\* The outcome of the last operation: its name, its result, whether a database
\* error was raised inside it, whether its session was rolled back, whether it
\* left uncommitted changes in a session that was neither rolled back nor
\* closed, the id it was about, whether a submitted number was not positive,
\* the HTTP status of a webhook answer, whether the document import was
\* called, whether an export file was written, and the data it produced.
NoOut == <<>>
NoOp ==
    [op |-> "init", result |-> "none", dbError |-> FALSE, rolledBack |-> FALSE,
     pending |-> FALSE, id |-> 0, bad |-> FALSE, status |-> 0, imported |-> FALSE,
     wrote |-> FALSE, blocked |-> FALSE, out |-> NoOut]

Done(op, result) == [NoOp EXCEPT !.op = op, !.result = result]

(***************************************************************************)
(* web/routes.py: create_course.  A POST that passes CourseForm validation *)
(* is committed outside any try block; any other POST goes through the     *)
(* try/except that rolls back.                                             *)
(***************************************************************************)
create_course ==
    \E formValid \in BOOLEAN, title \in Titles, code \in FormCodes :
        /\ UNCHANGED <<envvars, reqvars>>
        /\ /\ NextId(courses) <= MaxCourseId
           /\ IF CodeTaken(courses, code, 0)
              THEN /\ UNCHANGED dbvars
                   /\ lastOp' = IF formValid
                                THEN [Done("create_course", "raised") EXCEPT !.dbError = TRUE]
                                ELSE [Done("create_course", "error") EXCEPT
                                         !.dbError = TRUE, !.rolledBack = TRUE]
              ELSE /\ courses' = courses \cup
                          {[id |-> NextId(courses), title |-> title, code |-> code]}
                   /\ UNCHANGED <<lessons, outcomes, assessments, tools, assoc, llo>>
                   /\ lastOp' = [Done("create_course", "ok") EXCEPT !.id = NextId(courses)]

(***************************************************************************)
(* Form fields.  request.form.get(name, default) gives the default when    *)
(* the field is absent; int() raises ValueError unless the text is an      *)
(* optionally signed run of decimal digits.                                *)
(***************************************************************************)
Field(t) == [present |-> TRUE, text |-> t]
\* the submitted order and duration: one of them is varied at a time
FormPairs ==
    LET numbers == {[present |-> FALSE, text |-> <<>>],
                     Field(<<"0">>), Field(<<"2">>), Field(<<"-", "3">>), Field(<<"x">>)}
    IN {<<o, Field(<<"2">>)>> : o \in numbers} \cup {<<Field(<<"2">>), d>> : d \in numbers}

Digits == {"0", "1", "2", "3", "4", "5", "6", "7", "8", "9"}

DigitVal(c) ==
    CASE c = "0" -> 0 [] c = "1" -> 1 [] c = "2" -> 2 [] c = "3" -> 3 [] c = "4" -> 4
      [] c = "5" -> 5 [] c = "6" -> 6 [] c = "7" -> 7 [] c = "8" -> 8 [] c = "9" -> 9

RECURSIVE DigitsVal(_)
DigitsVal(s) ==
    IF s = <<>> THEN 0
    ELSE 10 * DigitsVal(SubSeq(s, 1, Len(s) - 1)) + DigitVal(s[Len(s)])

AllDigits(s) == s # <<>> /\ \A i \in 1..Len(s) : s[i] \in Digits

\* int(text): [ok |-> FALSE] stands for the ValueError
ParseInt(text) ==
    IF AllDigits(text) THEN [ok |-> TRUE, val |-> DigitsVal(text)]
    ELSE IF text # <<>> /\ text[1] \in {"-", "+"} /\ AllDigits(Tail(text))
         THEN [ok |-> TRUE,
               val |-> IF text[1] = "-" THEN 0 - DigitsVal(Tail(text))
                       ELSE DigitsVal(Tail(text))]
         ELSE [ok |-> FALSE, val |-> 0]

\* int(request.form.get(name, default))
FormInt(f, default) ==
    IF f.present THEN ParseInt(f.text) ELSE [ok |-> TRUE, val |-> default]

Missing == "<missing>"

\* Python's None where a number is expected
None == -1000

\* Lesson.validate_duration, Lesson.validate_order: TRUE when the value is
\* accepted, FALSE for the ValueError
validate_duration(duration) == ~(duration # None /\ duration <= 0)

\* a validator that lets every order through
validate_order_any(order) == TRUE

\* Lesson.validate_order
validate_order(order) == ~(order # None /\ order <= 0)

\* a validator with strict comparisons at the bounds
validate_percentage_strict(percentage) ==
    ~(percentage # None /\ (percentage <= 0 \/ percentage >= 100))

\* AssessmentFormat.validate_percentage
validate_percentage(percentage) ==
    ~(percentage # None /\ (percentage < 0 \/ percentage > 100))

(***************************************************************************)
(* session.delete(obj) followed by commit: the ORM loads the children of   *)
(* every relationship with cascade="all, delete-orphan" from the database  *)
(* and deletes them, and removes the association rows of a deleted lesson  *)
(* or learning outcome.                                                    *)
(***************************************************************************)
LessonsOf(ls, cid) == {l \in ls : l.course_id = cid}
ChildrenOf(rows, cid) == {r \in rows : r.course_id = cid}

\* the association rows left when the lessons and learning outcomes with the
\* given ids are deleted through the ORM
LinksAfter(links, lessonIds, loIds) ==
    {a \in links : a.lesson_id \notin lessonIds /\ a.lo_id \notin loIds}

Ids(rows) == {r.id : r \in rows}

\* a lessons relationship without cascade
CascadeNoLessons(ls, cid) == ls

CascadeLessons(ls, cid) == ls \ LessonsOf(ls, cid)

(***************************************************************************)
(* web/routes.py: edit_course                                              *)
(***************************************************************************)
edit_course ==
    \E course_id \in 1..MaxCourseId, title \in Titles, code \in FormCodes :
        /\ UNCHANGED <<envvars, reqvars>>
        /\ IF ~\E c \in courses : c.id = course_id
           THEN /\ UNCHANGED dbvars
                /\ lastOp' = [Done("edit_course", "notfound") EXCEPT !.id = course_id]
           ELSE IF CodeTaken(courses, code, course_id)
                THEN /\ UNCHANGED dbvars
                     /\ lastOp' = [Done("edit_course", "error") EXCEPT
                                      !.id = course_id, !.dbError = TRUE, !.rolledBack = TRUE]
                ELSE /\ courses' = {IF c.id = course_id
                                    THEN [c EXCEPT !.title = title, !.code = code]
                                    ELSE c : c \in courses}
                     /\ UNCHANGED <<lessons, outcomes, assessments, tools, assoc, llo>>
                     /\ lastOp' = [Done("edit_course", "ok") EXCEPT !.id = course_id]

(***************************************************************************)
(* web/routes.py: delete_course                                            *)
(***************************************************************************)
delete_course ==
    \E course_id \in 1..MaxCourseId :
        /\ UNCHANGED <<envvars, reqvars>>
        /\ IF ~\E c \in courses : c.id = course_id
           THEN /\ UNCHANGED dbvars
                /\ lastOp' = [Done("delete_course", "notfound") EXCEPT !.id = course_id]
           ELSE /\ courses' = {c \in courses : c.id # course_id}
                /\ lessons' = CascadeLessons(lessons, course_id)
                /\ outcomes' = outcomes \ ChildrenOf(outcomes, course_id)
                /\ assessments' = assessments \ ChildrenOf(assessments, course_id)
                /\ tools' = tools \ ChildrenOf(tools, course_id)
                /\ assoc' = LinksAfter(assoc, Ids(LessonsOf(lessons, course_id)),
                                       Ids(ChildrenOf(outcomes, course_id)))
                /\ llo' = LinksAfter(llo, Ids(LessonsOf(lessons, course_id)),
                                     Ids(ChildrenOf(outcomes, course_id)))
                /\ lastOp' = [Done("delete_course", "ok") EXCEPT
                                 !.id = course_id,
                                 !.out = [lessons |-> Cardinality(LessonsOf(lessons, course_id)),
                                          children |->
                                             Cardinality(LessonsOf(lessons, course_id))
                                             + Cardinality(ChildrenOf(outcomes, course_id))
                                             + Cardinality(ChildrenOf(assessments, course_id))
                                             + Cardinality(ChildrenOf(tools, course_id))]]

(***************************************************************************)
(* web/routes.py: create_lesson                                            *)
(***************************************************************************)
create_lesson ==
    \E course_id \in 1..MaxCourseId, title \in {"t1", Missing}, od \in FormPairs :
        LET orderF == od[1]
            durationF == od[2]
        IN
        /\ UNCHANGED <<envvars, reqvars>>
        /\ LET order == IF FormInt(orderF, 1).ok THEN FormInt(orderF, 1).val ELSE 1
               duration == IF FormInt(durationF, 60).ok THEN FormInt(durationF, 60).val ELSE 60
               op == [Done("create_lesson", "error") EXCEPT
                         !.id = course_id, !.bad = (order <= 0 \/ duration <= 0)]
           IN
           IF ~\E c \in courses : c.id = course_id
           THEN /\ UNCHANGED dbvars
                /\ lastOp' = [Done("create_lesson", "notfound") EXCEPT !.id = course_id]
           ELSE IF title = Missing \/ ~validate_duration(duration) \/ ~validate_order(order)
                THEN /\ UNCHANGED dbvars
                     /\ lastOp' = [op EXCEPT !.rolledBack = TRUE]
                ELSE /\ NextId(lessons) <= MaxChildId
                     /\ lessons' = lessons \cup
                            {[id |-> NextId(lessons), course_id |-> course_id,
                              order |-> order, duration |-> duration]}
                     /\ UNCHANGED <<courses, outcomes, assessments, tools, assoc, llo>>
                     /\ lastOp' = [op EXCEPT !.result = "ok"]

(***************************************************************************)
(* web/routes.py: edit_lesson.  The ValueError of int() and the ValueError *)
(* of the validators are both swallowed by the inner except clauses.       *)
(***************************************************************************)
edit_lesson ==
    \E lesson_id \in 1..MaxChildId, title \in {"t1", Missing}, od \in FormPairs :
        LET orderF == od[1]
            durationF == od[2]
        IN
        /\ UNCHANGED <<envvars, reqvars>>
        /\ IF ~\E l \in lessons : l.id = lesson_id
           THEN /\ UNCHANGED dbvars
                /\ lastOp' = [Done("edit_lesson", "notfound") EXCEPT !.id = lesson_id]
           ELSE LET lesson == CHOOSE l \in lessons : l.id = lesson_id
                    o == FormInt(orderF, 1)
                    d == FormInt(durationF, 60)
                    order == IF o.ok /\ validate_order(o.val) THEN o.val ELSE lesson.order
                    duration == IF d.ok /\ validate_duration(d.val) THEN d.val
                                ELSE lesson.duration
                    op == [Done("edit_lesson", "error") EXCEPT
                              !.id = lesson_id,
                              !.bad = ((o.ok /\ o.val <= 0) \/ (d.ok /\ d.val <= 0)),
                              !.out = [badOrder |-> o.ok /\ o.val <= 0,
                                       badDuration |-> d.ok /\ d.val <= 0,
                                       intOrder |-> o.ok, intDuration |-> d.ok,
                                       title |-> title # Missing]]
                IN
                IF title = Missing
                THEN /\ UNCHANGED dbvars
                     /\ lastOp' = [op EXCEPT !.rolledBack = TRUE]
                ELSE /\ lessons' = (lessons \ {lesson}) \cup
                            {[lesson EXCEPT !.order = order, !.duration = duration]}
                     /\ UNCHANGED <<courses, outcomes, assessments, tools, assoc, llo>>
                     /\ lastOp' = [op EXCEPT !.result = "ok"]

(***************************************************************************)
(* web/routes.py: delete_lesson                                            *)
(***************************************************************************)
delete_lesson ==
    \E lesson_id \in 1..MaxChildId :
        /\ UNCHANGED <<envvars, reqvars>>
        /\ IF ~\E l \in lessons : l.id = lesson_id
           THEN /\ UNCHANGED dbvars
                /\ lastOp' = [Done("delete_lesson", "notfound") EXCEPT !.id = lesson_id]
           ELSE /\ lessons' = {l \in lessons : l.id # lesson_id}
                /\ assoc' = LinksAfter(assoc, {lesson_id}, {})
                /\ llo' = LinksAfter(llo, {lesson_id}, {})
                /\ UNCHANGED <<courses, outcomes, assessments, tools>>
                /\ lastOp' = [Done("delete_lesson", "ok") EXCEPT !.id = lesson_id]

(***************************************************************************)
(* api/webhooks.py: the Google Docs webhook.                               *)
(***************************************************************************)
WebhookSecret == "your-webhook-secret-here"
NoToken == "<none>"

\* hmac.new(key, body, sha256).hexdigest(): distinct (key, body) pairs give
\* distinct digests
Hmac(key, body) == <<"sha256", key, body>>
NoHeader == <<"<none>">>

\* the X-Webhook-Signature headers a sender may attach to a body
Signatures(body) ==
    {NoHeader, <<>>, Hmac(WebhookSecret, body), Hmac("wrong-key", body),
     Hmac(WebhookSecret, "replayed")}

\* _verify_webhook_signature
_verify_webhook_signature(env, signature, body, secret) ==
    IF env = "development" THEN TRUE
    ELSE IF signature # NoHeader /\ signature # <<>> /\ secret # ""
         THEN signature = Hmac(secret, body)
         ELSE TRUE

\* The course structures the document import hands to the sync: a title,
\* learning-outcome texts, assessment formats, tools, and per lesson the value
\* of lesson_data.get('duration', 60).
HookDoc(title, nOutcomes, nAssessments, nTools, durations) ==
    [title |-> title, outcomes |-> nOutcomes, assessments |-> nAssessments,
     tools |-> nTools, lessons |-> durations]

HookDocsCourse ==
    {HookDoc(t, 0, 0, 0, <<>>) : t \in Titles}
    \cup {HookDoc(<<"a", "i">>, 1, 0, 0, <<>>), HookDoc(<<"a", "i">>, 0, 1, 0, <<>>),
          HookDoc(<<"a", "i">>, 0, 0, 1, <<60>>), HookDoc(<<"a", "i">>, 0, 0, 0, <<60>>)}

HookDocsLessons ==
    {HookDoc(<<"a", "i">>, 0, 0, 0, d) : d \in {<<>>, <<60>>, <<90, 60>>, <<0>>, <<30, -5>>}}

\* an import that lets the exception of the client or the parser through
import_from_platform_raising(clients, parsers, got, parsed) ==
    IF ~clients \/ got = "raise" \/ (got = "content" /\ parsers /\ parsed.kind = "raise")
    THEN [kind |-> "raise", data |-> NoOut]
    ELSE IF got = "content" /\ parsers THEN parsed
    ELSE [kind |-> "none", data |-> NoOut]

\* interop/manager.py: InteropManager.import_from_platform.  clients and parsers
\* say whether _initialize_platforms registered a client and a parser for the
\* platform; got is what client.get_content does (it raises, returns nothing,
\* returns content) and parsed what parser.parse_to_course_structure does (it
\* raises or returns a course structure).  The result: kind "raise" for the
\* ValueError, "none" for None, "data" for a returned structure.
import_from_platform(clients, parsers, got, parsed) ==
    IF ~clients THEN [kind |-> "raise", data |-> NoOut]
    ELSE IF got = "content" /\ parsers /\ parsed.kind = "data" THEN parsed
    ELSE [kind |-> "none", data |-> NoOut]

\* what parse_to_course_structure can do with a document of docs
Parsed(docs) == {[kind |-> "raise", data |-> NoOut]} \cup {[kind |-> "data", data |-> d] : d \in docs}

\* InteropManager.import_from_platform as the sync sees it: it raises, returns
\* None, or returns a course structure
Imports(docs) ==
    {import_from_platform(clients, parsers, got, parsed) :
        clients \in BOOLEAN, parsers \in BOOLEAN, got \in {"raise", "none", "content"},
        parsed \in Parsed(docs)}

\* _update_lessons: the rows added for the imported lessons, numbered from 1
NewLessons(kept, course_id, durations) ==
    {[id |-> NextId(kept) + i - 1, course_id |-> course_id, order |-> i,
      duration |-> durations[i]] : i \in 1..Len(durations)}

\* a session that keeps what it flushed
rollback_none(committed, flushed) == flushed

\* session.rollback(): the tables are as the last commit left them
rollback(committed, flushed) == committed

\* _sync_document_to_course once the import returned data, for the course the
\* title lookup found (existing # 0) or for a new course (existing = 0)
SyncData(data, existing, op) ==
    LET isNew == existing = 0
        code == GenerateCourseCode(data.title)
        cid == IF isNew THEN NextId(courses) ELSE existing
        kept == lessons \ LessonsOf(lessons, cid)
        failed == [op EXCEPT !.result = "error", !.status = 400, !.rolledBack = TRUE,
                             !.id = cid]
        \* the step that raises: 1 to 3 for the TypeError of _update_learning_outcomes,
        \* _update_assessment_formats and _update_tools, 4 for the ValueError of a
        \* lesson in _update_lessons
        step == IF data.outcomes > 0 THEN 1 ELSE IF data.assessments > 0 THEN 2
                ELSE IF data.tools > 0 THEN 3 ELSE 4
        valid == {n \in 0..Len(data.lessons) :
                     \A i \in 1..n : validate_duration(data.lessons[i])}
        \* the rows of the session when the exception is raised
        flushed ==
            [courses |-> IF isNew THEN courses \cup {[id |-> cid, title |-> data.title,
                                                       code |-> code]}
                         ELSE courses,
             outcomes |-> outcomes \ ChildrenOf(outcomes, cid),
             assessments |-> IF step >= 2 THEN assessments \ ChildrenOf(assessments, cid)
                             ELSE assessments,
             tools |-> IF step >= 3 THEN tools \ ChildrenOf(tools, cid) ELSE tools,
             lessons |-> IF step = 4
                         THEN kept \cup NewLessons(kept, cid, SubSeq(data.lessons, 1, Max(valid)))
                         ELSE lessons]
        after == rollback([courses |-> courses, outcomes |-> outcomes,
                           assessments |-> assessments, tools |-> tools,
                           lessons |-> lessons], flushed)
    IN
    IF isNew /\ CodeTaken(courses, code, 0)
    THEN /\ UNCHANGED dbvars
         /\ lastOp' = [failed EXCEPT !.dbError = TRUE, !.id = 0]
    ELSE IF \/ data.outcomes > 0 \/ data.assessments > 0 \/ data.tools > 0
            \/ \E i \in 1..Len(data.lessons) : ~validate_duration(data.lessons[i])
         THEN /\ courses' = after.courses
              /\ outcomes' = after.outcomes
              /\ assessments' = after.assessments
              /\ tools' = after.tools
              /\ lessons' = after.lessons
              /\ UNCHANGED <<assoc, llo>>
              /\ lastOp' = [failed EXCEPT
                               !.bad = \E i \in 1..Len(data.lessons) : data.lessons[i] <= 0]
         ELSE /\ isNew => NextId(courses) <= MaxCourseId
              /\ NextId(kept) + Len(data.lessons) - 1 <= MaxChildId
              /\ courses' = IF isNew
                            THEN courses \cup {[id |-> cid, title |-> data.title,
                                                code |-> code]}
                            ELSE courses
              /\ outcomes' = outcomes \ ChildrenOf(outcomes, cid)
              /\ assessments' = assessments \ ChildrenOf(assessments, cid)
              /\ tools' = tools \ ChildrenOf(tools, cid)
              /\ lessons' = kept \cup NewLessons(kept, cid, data.lessons)
              /\ UNCHANGED <<assoc, llo>>
              /\ lastOp' = [op EXCEPT !.result = IF isNew THEN "created" ELSE "updated",
                                      !.status = 200, !.id = cid]

\* _sync_document_to_course
_sync_document_to_course(imp, op) ==
    LET called == [op EXCEPT !.imported = TRUE] IN
    IF imp.kind # "data"
    THEN /\ UNCHANGED dbvars
         /\ lastOp' = [called EXCEPT !.result = "error", !.status = 400]
    ELSE \E existing \in {0} \cup {c.id : c \in courses} :
            /\ IF \E c \in courses : c.title = imp.data.title
               THEN \E c \in courses : c.title = imp.data.title /\ c.id = existing
               ELSE existing = 0
            /\ SyncData(imp.data, existing, called)

\* google_docs_webhook: the route, verification included
google_docs_webhook(method, token, signature, kind, imp) ==
    LET op == [Done("google_docs_webhook", "error") EXCEPT
                  !.out = [method |-> method,
                           tokenOk |-> token = WebhookSecret,
                           signed |-> signature = Hmac(WebhookSecret, kind),
                           imp |-> imp]]
    IN
    /\ UNCHANGED <<envvars, reqvars>>
    /\ IF method = "GET"
       THEN /\ UNCHANGED dbvars
            /\ lastOp' = IF token = WebhookSecret
                         THEN [op EXCEPT !.result = "verified", !.status = 200]
                         ELSE [op EXCEPT !.status = 401]
       ELSE IF ~_verify_webhook_signature(environment, signature, kind, WebhookSecret)
            THEN /\ UNCHANGED dbvars
                 /\ lastOp' = [op EXCEPT !.status = 401]
            ELSE IF kind \in {"drive", "document"}
                 THEN _sync_document_to_course(imp, op)
                 ELSE /\ UNCHANGED dbvars
                      /\ lastOp' = [op EXCEPT !.status = 400]

(***************************************************************************)
(* cli/setup.py: DatabaseSetup.create_sample_data                          *)
(***************************************************************************)
create_sample_data ==
    /\ UNCHANGED <<envvars, reqvars>>
    /\ IF CodeTaken(courses, <<"P", "Y", "1", "0", "1">>, 0)
       THEN /\ UNCHANGED dbvars
            /\ lastOp' = [Done("create_sample_data", "error") EXCEPT
                             !.dbError = TRUE, !.rolledBack = TRUE]
       ELSE /\ NextId(courses) <= MaxCourseId
            /\ NextId(lessons) + 1 <= MaxChildId
            /\ courses' = courses \cup
                   {[id |-> NextId(courses), title |-> <<"I", "n", "t", "r", "o", "d", "u", "c", "t", "i", "o", "n", " ", "t", "o", " ", "P", "y", "t", "h", "o", "n", " ", "P", "r", "o", "g", "r", "a", "m", "m", "i", "n", "g">>, code |-> <<"P", "Y", "1", "0", "1">>]}
            /\ lessons' = lessons \cup
                   {[id |-> NextId(lessons), course_id |-> NextId(courses),
                     order |-> 1, duration |-> 90],
                    [id |-> NextId(lessons) + 1, course_id |-> NextId(courses),
                     order |-> 2, duration |-> 120]}
            /\ UNCHANGED <<outcomes, assessments, tools, assoc, llo>>
            /\ lastOp' = [Done("create_sample_data", "ok") EXCEPT !.id = NextId(courses)]

(***************************************************************************)
(* tests/conftest.py: the helpers that construct model objects and commit  *)
(* them.  A validator that raises ValueError ends the helper before        *)
(* session.add; a value of None passes the validator and the column        *)
(* default is stored.  SQLite does not check foreign keys, so a lesson may *)
(* be given the course_id of no stored course.                             *)
(***************************************************************************)
MaxLeafId == 1

\* the value the INSERT stores for a column with a default
Stored(value, default) == IF value = None THEN default ELSE value

create_test_course ==
    \E code \in {<<"T", "C", "1", "0", "1">>, <<"C", "A", "S", "C", "A", "D", "E", "1", "0", "1">>} :
        /\ UNCHANGED <<envvars, reqvars>>
        /\ /\ NextId(courses) <= MaxCourseId
           /\ IF CodeTaken(courses, code, 0)
              THEN /\ UNCHANGED dbvars
                   /\ lastOp' = [Done("create_test_course", "raised") EXCEPT !.dbError = TRUE]
              ELSE /\ courses' = courses \cup
                          {[id |-> NextId(courses), title |-> <<"T", "e", "s", "t", " ", "C", "o", "u", "r", "s", "e">>, code |-> code]}
                   /\ UNCHANGED <<lessons, outcomes, assessments, tools, assoc, llo>>
                   /\ lastOp' = [Done("create_test_course", "ok") EXCEPT !.id = NextId(courses)]

\* via = "course": lesson.course = course; via = "course_id": the foreign key
create_test_lesson ==
    \E via \in {"course", "course_id"}, course_id \in 1..MaxCourseId, od \in {<<None, None>>, <<1, 60>>, <<0, 60>>, <<2, -5>>} :
        LET order == od[1]
            duration == od[2]
        IN
        /\ UNCHANGED <<envvars, reqvars>>
        /\ LET op == [Done("create_test_lesson", "raised") EXCEPT
                         !.id = course_id,
                         !.bad = ((order # None /\ order <= 0) \/ (duration # None /\ duration <= 0))]
           IN
           /\ via = "course" => \E c \in courses : c.id = course_id
           /\ IF ~validate_duration(duration) \/ ~validate_order(order)
              THEN /\ UNCHANGED dbvars
                   /\ lastOp' = op
              ELSE /\ NextId(lessons) <= MaxChildId
                   /\ lessons' = lessons \cup
                          {[id |-> NextId(lessons), course_id |-> course_id,
                            order |-> Stored(order, 1), duration |-> Stored(duration, 60)]}
                   /\ UNCHANGED <<courses, outcomes, assessments, tools, assoc, llo>>
                   /\ lastOp' = [op EXCEPT !.result = "ok"]

create_test_learning_outcome ==
    \E course_id \in 1..MaxCourseId :
        /\ UNCHANGED <<envvars, reqvars>>
        /\ /\ \E c \in courses : c.id = course_id
           /\ NextId(outcomes) <= MaxLeafId
           /\ outcomes' = outcomes \cup {[id |-> NextId(outcomes), course_id |-> course_id]}
           /\ UNCHANGED <<courses, lessons, assessments, tools, assoc, llo>>
           /\ lastOp' = [Done("create_test_learning_outcome", "ok") EXCEPT !.id = course_id]

create_test_assessment_format ==
    \E course_id \in 1..MaxCourseId, percentage \in {None, -1, 0, 50, 100, 101} :
        /\ UNCHANGED <<envvars, reqvars>>
        /\ LET op == [Done("create_test_assessment_format", "raised") EXCEPT
                         !.id = NextId(assessments), !.out = [percentage |-> percentage]]
           IN
           /\ \E c \in courses : c.id = course_id
           /\ NextId(assessments) <= MaxLeafId
           /\ IF ~validate_percentage(percentage)
              THEN /\ UNCHANGED dbvars
                   /\ lastOp' = op
              ELSE /\ assessments' = assessments \cup
                          {[id |-> NextId(assessments), course_id |-> course_id,
                            percentage |-> percentage]}
                   /\ UNCHANGED <<courses, lessons, outcomes, tools, assoc, llo>>
                   /\ lastOp' = [op EXCEPT !.result = "ok"]

create_test_tool ==
    \E course_id \in 1..MaxCourseId :
        /\ UNCHANGED <<envvars, reqvars>>
        /\ /\ \E c \in courses : c.id = course_id
           /\ NextId(tools) <= MaxLeafId
           /\ tools' = tools \cup {[id |-> NextId(tools), course_id |-> course_id]}
           /\ UNCHANGED <<courses, lessons, outcomes, assessments, assoc, llo>>
           /\ lastOp' = [Done("create_test_tool", "ok") EXCEPT !.id = course_id]

(***************************************************************************)
(* The two stores of lesson-to-outcome associations.  shared/models.py:    *)
(* the LessonLearningOutcome model validates its strength;                 *)
(* Lesson.add_learning_outcome inserts into the association table          *)
(* whatever strength it is given.                                          *)
(***************************************************************************)
Strengths == {"Primary", "Secondary", "Tertiary", "Strong"}

validate_strength(strength) == strength \in {"Primary", "Secondary", "Tertiary"}

\* a lookup that never finds the association
NeverLinked(links, lesson_id, lo_id) == FALSE

\* session.query(...).filter_by(lesson_id=..., learning_outcome_id=...).first()
Linked(links, lesson_id, lo_id) ==
    \E a \in links : a.lesson_id = lesson_id /\ a.lo_id = lo_id

create_test_lesson_learning_outcome ==
    \E lesson_id \in 1..MaxChildId, lo_id \in 1..MaxLeafId, strength \in Strengths :
        /\ UNCHANGED <<envvars, reqvars>>
        /\ LET op == [Done("create_test_lesson_learning_outcome", "raised") EXCEPT
                         !.id = lesson_id, !.bad = ~validate_strength(strength)]
           IN
           /\ \E l \in lessons : l.id = lesson_id
           /\ \E o \in outcomes : o.id = lo_id
           /\ IF Linked(llo, lesson_id, lo_id)
              THEN /\ UNCHANGED dbvars
                   /\ lastOp' = [op EXCEPT !.result = "existing"]
              ELSE IF ~validate_strength(strength)
                   THEN /\ UNCHANGED dbvars
                        /\ lastOp' = op
                   ELSE /\ llo' = llo \cup {[lesson_id |-> lesson_id, lo_id |-> lo_id,
                                             strength |-> strength]}
                        /\ UNCHANGED <<courses, lessons, outcomes, assessments, tools, assoc>>
                        /\ lastOp' = [op EXCEPT !.result = "ok"]

\* Lesson.add_learning_outcome; attached says whether Session.object_session
\* finds a session for the lesson object
add_learning_outcome ==
    \E lesson_id \in 1..MaxChildId, lo_id \in 1..MaxLeafId, strength \in Strengths,
       attached \in BOOLEAN :
        /\ UNCHANGED <<envvars, reqvars>>
        /\ LET op == [Done("add_learning_outcome", "ok") EXCEPT
                         !.id = lesson_id, !.bad = ~validate_strength(strength),
                         !.out = [lo_id |-> lo_id, strength |-> strength,
                                  attached |-> attached]]
           IN
           /\ \E l \in lessons : l.id = lesson_id
           /\ \E o \in outcomes : o.id = lo_id
           /\ IF ~attached
              THEN /\ UNCHANGED dbvars
                   /\ lastOp' = [op EXCEPT !.result = "raised"]
              ELSE IF Linked(assoc, lesson_id, lo_id)
              THEN /\ UNCHANGED dbvars
                   /\ lastOp' = [op EXCEPT !.result = "existing"]
              ELSE /\ assoc' = assoc \cup {[lesson_id |-> lesson_id, lo_id |-> lo_id,
                                            strength |-> strength]}
                   /\ UNCHANGED <<courses, lessons, outcomes, assessments, tools, llo>>
                   /\ lastOp' = op

(***************************************************************************)
(* cli/commands.py: export_data, in the pearson package and in the older   *)
(* src/cli package.  Both build the export dictionary before they look at  *)
(* the format; the query orders the lessons by their order column and      *)
(* leaves the order of lessons with equal order to the database.           *)
(***************************************************************************)
ExportFormats == {"json", "csv", "other"}

\* a query ordered by nothing: the rows come in any order
Unordered(ls) ==
    {q \in [1..Cardinality(ls) -> ls] :
        \A i, j \in 1..Cardinality(ls) : i # j => q[i] # q[j]}

\* the results .order_by(Lesson.order).all() can give for a set of lessons
OrderedBy(ls) ==
    {q \in [1..Cardinality(ls) -> ls] :
        /\ \A i, j \in 1..Cardinality(ls) : i # j => q[i] # q[j]
        /\ \A i, j \in 1..Cardinality(ls) : i < j => q[i].order <= q[j].order}

RECURSIVE SumDuration(_)
SumDuration(q) == IF q = <<>> THEN 0 ELSE Head(q).duration + SumDuration(Tail(q))

ExportDict(course_id, q) ==
    [course |-> course_id,
     lessons |-> [i \in 1..Len(q) |-> [id |-> q[i].id, order |-> q[i].order,
                                       duration |-> q[i].duration]],
     total_lessons |-> Len(q),
     total_duration |-> SumDuration(q)]

\* pearson/cli/commands.py
export_data ==
    \E course_id \in 1..MaxCourseId, format \in ExportFormats :
        /\ UNCHANGED <<envvars, reqvars>>
        /\ /\ UNCHANGED dbvars
           /\ IF ~\E c \in courses : c.id = course_id
              THEN lastOp' = [Done("export_data", "false") EXCEPT !.id = course_id]
              ELSE \E q \in OrderedBy(LessonsOf(lessons, course_id)) :
                      lastOp' = [Done("export_data", "true") EXCEPT
                                    !.id = course_id,
                                    !.wrote = (format \in {"json", "csv"}),
                                    !.out = ExportDict(course_id, q)]

\* src/cli/commands.py: the dictionary reads lesson.objectives, an attribute the
\* Lesson model does not have; with at least one lesson the AttributeError is
\* caught by the except clause, which returns False
legacy_export_data ==
    \E course_id \in 1..MaxCourseId, format \in ExportFormats :
        /\ UNCHANGED <<envvars, reqvars>>
        /\ /\ UNCHANGED dbvars
           /\ IF ~\E c \in courses : c.id = course_id
              THEN lastOp' = [Done("legacy_export_data", "false") EXCEPT !.id = course_id]
              ELSE IF LessonsOf(lessons, course_id) # {}
                   THEN lastOp' = [Done("legacy_export_data", "false") EXCEPT
                                      !.id = course_id, !.bad = TRUE]
                   ELSE lastOp' = [Done("legacy_export_data", "true") EXCEPT
                                      !.id = course_id,
                                      !.wrote = (format \in {"json", "csv"}),
                                      !.out = ExportDict(course_id, <<>>)]

(***************************************************************************)
(* web/routes.py: the JSON API.  Course.lessons is a lazy="dynamic"        *)
(* relationship: its value is a query object, which has count() but no     *)
(* __len__, so len(course.lessons) raises TypeError for the first course   *)
(* of the list; the except clause answers 500 with the error text.         *)
(***************************************************************************)
api_courses ==
    /\ UNCHANGED <<dbvars, envvars, reqvars>>
    /\ IF courses = {}
       THEN lastOp' = [Done("api_courses", "ok") EXCEPT !.status = 200, !.out = <<>>]
       ELSE lastOp' = [Done("api_courses", "error") EXCEPT
                          !.status = 500, !.bad = TRUE, !.out = [error |-> "TypeError"]]

api_course_lessons ==
    \E course_id \in 1..MaxCourseId :
        /\ UNCHANGED <<dbvars, envvars, reqvars>>
        /\ \E q \in OrderedBy(LessonsOf(lessons, course_id)) :
              lastOp' = [Done("api_course_lessons", "ok") EXCEPT
                            !.id = course_id, !.status = 200,
                            !.out = [i \in 1..Len(q) |->
                                        [id |-> q[i].id, order |-> q[i].order,
                                         duration |-> q[i].duration]]]

(***************************************************************************)
(* cli/course_injector.py: the Markdown syllabus parser.  A text is a      *)
(* sequence of characters; each regular expression of the parser is an     *)
(* operator that finds what re.search / re.findall find for it, greedy     *)
(* quantifiers and their backtracking included.                            *)
(***************************************************************************)
NL == "\n"
IsSpace(c) == c \in {" ", NL, "\t"}

StartsAt(s, i, lit) ==
    /\ i >= 1
    /\ i + Len(lit) - 1 <= Len(s)
    /\ \A k \in 1..Len(lit) : s[i + k - 1] = lit[k]

\* the first index >= i where lit occurs in s, 0 when there is none
FindFrom(s, i, lit) ==
    LET hits == {j \in i..(Len(s) - Len(lit) + 1) : StartsAt(s, j, lit)}
    IN IF hits = {} THEN 0 ELSE Min(hits)

\* the first index >= i that holds a character outside (inside) a class, Len(s) + 1
\* when the class runs to the end
LineEnd(s, i) ==
    LET nl == {j \in i..Len(s) : s[j] = NL} IN IF nl = {} THEN Len(s) + 1 ELSE Min(nl)
WsEnd(s, i) ==
    LET ns == {j \in i..Len(s) : ~IsSpace(s[j])} IN IF ns = {} THEN Len(s) + 1 ELSE Min(ns)
DigitsEnd(s, i) ==
    LET nd == {j \in i..Len(s) : s[j] \notin Digits} IN IF nd = {} THEN Len(s) + 1 ELSE Min(nd)

\* str.strip()
Strip(s) ==
    LET ns == {j \in 1..Len(s) : ~IsSpace(s[j])}
    IN IF ns = {} THEN <<>> ELSE SubSeq(s, Min(ns), Max(ns))

NoMatch == [ok |-> FALSE, from |-> 0, to |-> 0]
Match(s, from) == [ok |-> TRUE, from |-> from, to |-> LineEnd(s, from) - 1]

\* \s*([^\n]+) at index p, the greedy \s* running to WsEnd(s, p): the group is
\* the rest of the line of the first non-blank character; when the blanks run
\* to the end of the text, \s* gives characters back until the group can start
\* on a blank that is no newline
ValueAt(s, p) ==
    IF WsEnd(s, p) <= Len(s) THEN Match(s, WsEnd(s, p))
    ELSE IF \E k \in p..Len(s) : s[k] # NL
         THEN Match(s, Max({k \in p..Len(s) : s[k] # NL}))
         ELSE NoMatch

\* re.search(lit + r'\s*([^\n]+)', s) from index i
RECURSIVE SearchLabel(_, _, _)
LabelAt(s, j, lit) ==
    IF j = 0 THEN NoMatch
    ELSE IF ValueAt(s, j + Len(lit)).ok THEN ValueAt(s, j + Len(lit))
         ELSE SearchLabel(s, j + 1, lit)
SearchLabel(s, i, lit) == LabelAt(s, FindFrom(s, i, lit), lit)

\* re.search(r'# ([^\n]+)', s) from index i
RECURSIVE SearchTitle(_, _)
TitleAt(s, j) ==
    IF j = 0 THEN NoMatch
    ELSE IF j + 2 <= Len(s) /\ s[j + 2] # NL THEN Match(s, j + 2)
         ELSE SearchTitle(s, j + 1)
SearchTitle(s, i) == TitleAt(s, FindFrom(s, i, <<"#", " ">>))

\* the literal texts of the parser's regular expressions and the activity it
\* gives a 3-column row
Lit ==
    [Aim |-> <<"#", "#", " ", "C", "o", "u", "r", "s", "e", " ", "A", "i", "m">>,
     Code |-> <<"*", "*", "C", "o", "u", "r", "s", "e", " ", "C", "o", "d", "e", "*", "*", ":">>,
     Level |-> <<"*", "*", "L", "e", "v", "e", "l", "*", "*", ":">>,
     Instructor |-> <<"*", "*", "I", "n", "s", "t", "r", "u", "c", "t", "o", "r", "*", "*", ":">>,
     Language |-> <<"*", "*", "L", "a", "n", "g", "u", "a", "g", "e", "*", "*", ":">>,
     Delivery |-> <<"*", "*", "D", "e", "l", "i", "v", "e", "r", "y", "*", "*", ":">>,
     LO |-> <<"-", " ", "*", "*", "L", "O">>,
     Assessment |-> <<"#", "#", " ", "A", "s", "s", "e", "s", "s", "m", "e", "n", "t", " ", "F", "o", "r", "m", "a", "t", "s">>,
     Weekly |-> <<"#", "#", " ", "W", "e", "e", "k", "l", "y", " ", "S", "t", "r", "u", "c", "t", "u", "r", "e">>,
     Breakdown |-> <<"#", "#", " ", "W", "e", "e", "k", "l", "y", " ", "B", "r", "e", "a", "k", "d", "o", "w", "n">>,
     Tools |-> <<"#", "#", " ", "R", "e", "q", "u", "i", "r", "e", "d", " ", "T", "o", "o", "l", "s", " ", "&", " ", "S", "o", "f", "t", "w", "a", "r", "e">>,
     Hardware |-> <<"M", "i", "n", "i", "m", "u", "m", " ", "c", "o", "m", "p", "u", "t", "e", "r", " ", "s", "p", "e", "c", "s", ":">>,
     Software |-> <<"S", "o", "f", "t", "w", "a", "r", "e", ":">>,
     AI |-> <<"A", "I", " ", "t", "o", "o", "l", "s", ":">>,
     Lecture |-> <<"L", "e", "c", "t", "u", "r", "e">>]

\* the defaults of parse_comprehensive_syllabus
Default ==
    [Title |-> <<"C", "o", "u", "r", "s", "e", " ", "T", "i", "t", "l", "e">>,
     Code |-> <<"C", "O", "D", "E", "-", "0", "0", "1">>,
     Level |-> <<"H", "N", "D", " ", "A", "r", "t", " ", "&", " ", "D", "e", "s", "i", "g", "n">>,
     Instructor |-> <<"K", "e", "r", "e", "m">>,
     Language |-> <<"E", "n", "g", "l", "i", "s", "h">>,
     Delivery |-> <<"W", "e", "e", "k", "l", "y", " ", "s", "e", "m", "i", "n", "a", "r", "s">>,
     Aim |-> <<"C", "o", "u", "r", "s", "e", " ", "a", "i", "m", " ", "n", "o", "t", " ", "s", "p", "e", "c", "i", "f", "i", "e", "d">>]

\* re.search(r'## Course Aim\s*\n([^\n]+)', s) from index i: \s* gives back
\* characters until a newline followed by a non-empty line is left for \n
RECURSIVE SearchAim(_, _)
AimElse(s, j, ks) == IF ks # {} THEN Match(s, Max(ks) + 1) ELSE SearchAim(s, j + 1)
AimAt(s, j) ==
    IF j = 0 THEN NoMatch
    ELSE AimElse(s, j, {k \in (j + Len(Lit.Aim))..(WsEnd(s, j + Len(Lit.Aim)) - 1) :
                            s[k] = NL /\ k + 1 <= Len(s) /\ s[k + 1] # NL})
SearchAim(s, i) == AimAt(s, FindFrom(s, i, Lit.Aim))

\* an extraction that gives None instead of the default
_extract_value_or_none(m, content, default) ==
    IF m.ok THEN Strip(SubSeq(content, m.from, m.to)) ELSE <<"<None>">>

\* CourseInjector._extract_value: the stripped group, or the default
_extract_value(m, content, default) ==
    IF m.ok THEN Strip(SubSeq(content, m.from, m.to)) ELSE default

\* re.findall(r'- \*\*(LO\d+)\**:\s*([^\n]+)', s) from index i: the digits
\* from d to de - 1, the asterisks up to se - 1, the colon at se
RECURSIVE FindLOs(_, _)
LOValue(s, j, de, v) ==
    IF v.ok
    THEN <<[code |-> SubSeq(s, j + 4, de - 1),
            description |-> Strip(SubSeq(s, v.from, v.to))]>> \o FindLOs(s, v.to + 1)
    ELSE FindLOs(s, j + 1)
LOColon(s, j, d, de, se) ==
    IF de > d /\ se <= Len(s) /\ s[se] = ":" THEN LOValue(s, j, de, ValueAt(s, se + 1))
    ELSE FindLOs(s, j + 1)
LOAt(s, j) ==
    IF j = 0 THEN <<>>
    ELSE LOColon(s, j, j + Len(Lit.LO), DigitsEnd(s, j + Len(Lit.LO)),
                 Min({k \in DigitsEnd(s, j + Len(Lit.LO))..(Len(s) + 1) :
                          k = Len(s) + 1 \/ s[k] # "*"}))
FindLOs(s, i) == LOAt(s, FindFrom(s, i, Lit.LO))

\* "- " followed by at least one character of the same line
ItemAt(s, k) == StartsAt(s, k, <<"-", " ">>) /\ k + 2 <= Len(s) /\ s[k + 2] # NL

\* (?:- [^\n]+\n?)+ from index k, then re.findall(r'- ([^\n]+)') on it
RECURSIVE ItemsFrom(_, _)
ItemTo(s, k, e) ==
    <<SubSeq(s, k + 2, e - 1)>> \o (IF e <= Len(s) THEN ItemsFrom(s, e + 1) ELSE <<>>)
ItemsFrom(s, k) == IF ~ItemAt(s, k) THEN <<>> ELSE ItemTo(s, k, LineEnd(s, k + 2))

\* re.search(r'## Assessment Formats\s*\n((?:- [^\n]+\n?)+)', s) from index i
RECURSIVE SearchAssessment(_, _)
AssessmentElse(s, j, ks) ==
    IF ks # {} THEN ItemsFrom(s, Max(ks) + 1) ELSE SearchAssessment(s, j + 1)
AssessmentAt(s, j) ==
    IF j = 0 THEN <<>>
    ELSE AssessmentElse(s, j,
             {k \in (j + Len(Lit.Assessment))..(WsEnd(s, j + Len(Lit.Assessment)) - 1) :
                  s[k] = NL /\ ItemAt(s, k + 1)})
SearchAssessment(s, i) == AssessmentAt(s, FindFrom(s, i, Lit.Assessment))

\* re.search(lit + r'\s*(.*?)(?=##|\Z)', s, re.DOTALL), the heading found at
\* index j: the text from the first non-blank character q after the heading up
\* to the next "##", at h, or the end
SectionTo(s, q, h) == [ok |-> TRUE, text |-> SubSeq(s, q, IF h = 0 THEN Len(s) ELSE h - 1)]
SectionAt(s, j, lit) ==
    IF j = 0 THEN [ok |-> FALSE, text |-> <<>>]
    ELSE SectionTo(s, WsEnd(s, j + Len(lit)),
                   FindFrom(s, WsEnd(s, j + Len(lit)), <<"#", "#">>))
SectionAfter(s, lit) == SectionAt(s, FindFrom(s, 1, lit), lit)

\* ([^|]+) \| from index a: the group ends before the blank that precedes the
\* next "|", at index b; next is the index after that "|"
NoCell == [ok |-> FALSE, val |-> <<>>, next |-> 0]
CellTo(s, a, b) ==
    IF b = 0 \/ b - 2 < a \/ s[b - 1] # " " THEN NoCell
    ELSE [ok |-> TRUE, val |-> SubSeq(s, a, b - 2), next |-> b + 1]
Cell(s, a) ==
    CellTo(s, a, IF \E b \in a..Len(s) : s[b] = "|"
                 THEN Min({b \in a..Len(s) : s[b] = "|"}) ELSE 0)
\* the cell after cell c and the blank that follows its "|"
NextCell(s, c) ==
    IF c.ok /\ c.next <= Len(s) /\ s[c.next] = " " THEN Cell(s, c.next + 1) ELSE NoCell

\* \| (\d+) \| at index j, the digits ending before de, then the cells c1, c2
\* and, in the 4-column pattern (n = 3), c3
RowOf(s, j, de, c1, c2, c3) ==
    IF /\ StartsAt(s, j, <<"|", " ">>) /\ de > j + 2
       /\ StartsAt(s, de, <<" ", "|", " ">>) /\ c1.ok /\ c2.ok /\ c3.ok
    THEN [ok |-> TRUE, week |-> DigitsVal(SubSeq(s, j + 2, de - 1)),
          topic |-> Strip(c1.val), second |-> Strip(c2.val), third |-> Strip(c3.val),
          next |-> c3.next]
    ELSE [ok |-> FALSE, week |-> 0, topic |-> <<>>, second |-> <<>>, third |-> <<>>, next |-> 0]
RowRest(s, j, n, de, c1) ==
    RowOf(s, j, de, c1, NextCell(s, c1),
          IF n = 2 THEN NextCell(s, c1) ELSE NextCell(s, NextCell(s, c1)))
RowAt(s, j, n) == RowRest(s, j, n, DigitsEnd(s, j + 2), Cell(s, DigitsEnd(s, j + 2) + 3))

\* re.findall of the 4-column (n = 3) or 3-column (n = 2) table pattern
RECURSIVE FindRows(_, _, _)
RowsWith(s, j, n, r) ==
    IF r.ok THEN <<r>> \o FindRows(s, r.next, n) ELSE FindRows(s, j + 1, n)
RowsAt(s, j, n) == IF j = 0 THEN <<>> ELSE RowsWith(s, j, n, RowAt(s, j, n))
FindRows(s, i, n) == RowsAt(s, FindFrom(s, i, <<"|", " ">>), n)

\* CourseInjector._parse_standard_weekly_structure
WeeksThree(three) ==
    [k \in 1..Len(three) |->
        [week |-> three[k].week, topic |-> three[k].topic,
         activity |-> Lit.Lecture, assignment |-> three[k].second]]
WeeksFour(four, text) ==
    IF four # <<>>
    THEN [k \in 1..Len(four) |->
             [week |-> four[k].week, topic |-> four[k].topic,
              activity |-> four[k].second, assignment |-> four[k].third]]
    ELSE WeeksThree(FindRows(text, 1, 2))
WeeksOf(sec) == IF ~sec.ok THEN <<>> ELSE WeeksFour(FindRows(sec.text, 1, 3), sec.text)
_parse_standard_weekly_structure(md) ==
    WeeksOf(IF SectionAfter(md, Lit.Weekly).ok THEN SectionAfter(md, Lit.Weekly)
            ELSE SectionAfter(md, Lit.Breakdown))

\* str.split(',') followed by strip() and the removal of empty pieces
RECURSIVE SplitComma(_, _, _)
Piece(t) == IF t = <<>> THEN <<>> ELSE <<t>>
SplitComma(s, i, cur) ==
    IF i > Len(s) THEN Piece(Strip(cur))
    ELSE IF s[i] = "," THEN Piece(Strip(cur)) \o SplitComma(s, i + 1, <<>>)
         ELSE SplitComma(s, i + 1, Append(cur, s[i]))

ListAfter(sec, lit) ==
    IF SearchLabel(sec, 1, lit).ok
    THEN SplitComma(SubSeq(sec, SearchLabel(sec, 1, lit).from, SearchLabel(sec, 1, lit).to),
                    1, <<>>)
    ELSE <<>>

\* re.search(r'Minimum computer specs:\s*((?:\s+- [^\n]+\n?)+)', sec): blanks,
\* then an item
HasHardware(sec) ==
    \E j \in 1..Len(sec) :
        /\ StartsAt(sec, j, Lit.Hardware)
        /\ WsEnd(sec, j + Len(Lit.Hardware)) > j + Len(Lit.Hardware)
        /\ ItemAt(sec, WsEnd(sec, j + Len(Lit.Hardware)))

\* CourseInjector._parse_standard_tools_section: the names of the tools
ToolsOf(sec) ==
    IF ~sec.ok THEN <<>>
    ELSE (IF HasHardware(sec.text) THEN <<<<"C", "o", "m", "p", "u", "t", "e", "r", " ", "S", "y", "s", "t", "e", "m">>>> ELSE <<>>)
         \o ListAfter(sec.text, Lit.Software) \o ListAfter(sec.text, Lit.AI)
\* the heading is searched with re.IGNORECASE
_parse_standard_tools_section(md) ==
    ToolsOf(SectionAt(md, FindFrom(UpperSeq(md), 1, UpperSeq(Lit.Tools)), Lit.Tools))

\* CourseInjector.parse_comprehensive_syllabus
parse_comprehensive_syllabus(md) ==
    [title |-> _extract_value(SearchTitle(md, 1), md, Default.Title),
     course_code |-> _extract_value(SearchLabel(md, 1, Lit.Code), md, Default.Code),
     level |-> _extract_value(SearchLabel(md, 1, Lit.Level), md, Default.Level),
     instructor |-> _extract_value(SearchLabel(md, 1, Lit.Instructor), md, Default.Instructor),
     language |-> _extract_value(SearchLabel(md, 1, Lit.Language), md, Default.Language),
     delivery_mode |-> _extract_value(SearchLabel(md, 1, Lit.Delivery), md, Default.Delivery),
     aim |-> _extract_value(SearchAim(md, 1), md, Default.Aim),
     learning_outcomes |-> FindLOs(md, 1),
     weeks |-> _parse_standard_weekly_structure(md),
     assessment_formats |-> SearchAssessment(md, 1),
     tools |-> _parse_standard_tools_section(md)]

(***************************************************************************)
(* cli/course_injector.py: inject_comprehensive_course.  The course is     *)
(* flushed first; the constructors of LearningOutcome, AssessmentFormat,   *)
(* Tool and Lesson are then called with keywords the models do not have    *)
(* (code, requirements, category, objectives) and raise TypeError.  The    *)
(* except clause returns False; it neither rolls the session back nor      *)
(* closes it.                                                              *)
(***************************************************************************)
NoFile == <<"<no file>">>
\* Python's None where a string is expected; title and course_code are NOT NULL
NoValue == <<"<None>">>

HasChildren(data) ==
    \/ data.learning_outcomes # <<>>
    \/ data.assessment_formats # <<>>
    \/ data.tools # <<>>
    \/ data.weeks # <<>>

\* the part of inject_comprehensive_course that follows the parsing; op is the
\* outcome when an exception is caught, with the parsed data
InjectData(data) ==
    LET op == [Done("inject", "false") EXCEPT !.out = data] IN
    /\ NextId(courses) <= MaxCourseId
    /\ IF data.title = NoValue \/ data.course_code = NoValue
       THEN /\ UNCHANGED dbvars
            /\ lastOp' = [op EXCEPT !.dbError = TRUE, !.pending = TRUE, !.bad = TRUE]
       ELSE IF CodeTaken(courses, data.course_code, 0)
       THEN /\ UNCHANGED dbvars
            /\ lastOp' = [op EXCEPT !.dbError = TRUE, !.pending = TRUE]
       ELSE IF HasChildren(data)
            THEN /\ UNCHANGED dbvars
                 /\ lastOp' = [op EXCEPT !.pending = TRUE]
            ELSE /\ courses' = courses \cup
                        {[id |-> NextId(courses), title |-> data.title,
                          code |-> data.course_code]}
                 /\ UNCHANGED <<lessons, outcomes, assessments, tools, assoc, llo>>
                 /\ lastOp' = [op EXCEPT !.result = "ok", !.id = NextId(courses)]

\* md_content is the content of the file at md_file_path, NoFile when it cannot
\* be read
inject_comprehensive_course(md_content) ==
    IF md_content = NoFile
    THEN /\ UNCHANGED dbvars
         /\ lastOp' = Done("inject", "false")
    ELSE InjectData(parse_comprehensive_syllabus(md_content))

\* the syllabus files of the course-level specification: a title and a course
\* code, a title and a learning outcome, an empty file, an unreadable file
SyllabusDocs ==
    {<<"#", " ", "a", "i", "\n", "*", "*", "C", "o", "u", "r", "s", "e", " ", "C", "o", "d", "e", "*", "*", ":", " ", "P", "Y", "1", "0", "1", "\n">>,
     <<"#", " ", "a", "i", "\n", "-", " ", "*", "*", "L", "O", "1", "*", "*", ":", " ", "z", "\n">>,
     <<>>,
     NoFile}

(***************************************************************************)
(* web/routes.py: the session of a web request.  The application's         *)
(* DatabaseSetup.Session is a scoped_session: Session() gives the calling  *)
(* thread the session object of its registry and creates one only when the *)
(* thread has none.  A request is identified by its thread and its number  *)
(* on that thread.  pearson/__init__.py puts db_setup into the             *)
(* configuration before setup_db runs, so get_db_session takes its first   *)
(* branch.                                                                 *)
(***************************************************************************)
MaxThreads == 2
MaxRequests == 2
MaxSessions == 4
Threads == 1..MaxThreads

\* the session object that get_db_session returns to thread t
SessionOf(t) ==
    IF req[t].db_session # 0 THEN req[t].db_session
    ELSE IF registry[t] # 0 THEN registry[t]
    ELSE Len(sessions) + 1

\* get_db_session called by thread t: the changes to g, the registry and the
\* session objects
get_db_session(t) ==
    LET sid == SessionOf(t)
        rid == <<t, req'[t].n>>
    IN
    /\ registry' = [registry EXCEPT ![t] = IF req[t].db_session # 0 THEN @ ELSE sid]
    /\ sessions' =
           IF req[t].db_session # 0 THEN sessions
           ELSE IF sid <= Len(sessions)
                THEN [sessions EXCEPT ![sid].state = "open", ![sid].holder = rid,
                                      ![sid].users = @ \cup {rid}]
                ELSE Append(sessions, [state |-> "open", holder |-> rid, users |-> {rid},
                                       kind |-> "app"])

\* before_app_request: a request with the given route starts on thread t
setup_db ==
    \E t \in Threads, route \in {"view", "import"} :
        /\ req[t].phase = "idle"
        /\ req[t].n < MaxRequests
        /\ SessionOf(t) <= MaxSessions
        /\ req' = [req EXCEPT ![t] = [phase |-> "route", n |-> req[t].n + 1, route |-> route,
                                      db_session |-> SessionOf(t), got |-> {SessionOf(t)},
                                      raised |-> FALSE, upload |-> NoFile]]
        /\ get_db_session(t)
        /\ UNCHANGED <<dbvars, lastOp, envvars, temp, txn>>

\* a route that calls get_db_session and returns or raises
view_route ==
    \E t \in Threads, raises \in BOOLEAN :
        /\ req[t].phase = "route"
        /\ req[t].route = "view"
        /\ req' = [req EXCEPT ![t].phase = "after", ![t].got = @ \cup {SessionOf(t)},
                              ![t].raised = raises]
        /\ get_db_session(t)
        /\ UNCHANGED <<dbvars, lastOp, envvars, temp, txn>>

\* an os.remove that leaves the file in place
remove_none(content) == content

\* os.remove(temp_path)
remove(content) == NoFile

\* import_syllabus, the POST of a file, up to file.save(temp_path).  A request
\* without a file part, with an empty file name or with a name that does not end
\* in .md is redirected before anything is written.  Every upload is given the
\* same secured file name, so all requests write the same temporary path;
\* upload is the content of the request's own file part.
import_save ==
    \E t \in Threads, upload \in {"no file part", "empty filename", "not .md", ".md"},
       content \in SyllabusDocs \ {NoFile} :
        /\ req[t].phase = "route"
        /\ req[t].route = "import"
        /\ IF upload = ".md"
           THEN /\ temp' = content
                /\ req' = [req EXCEPT ![t].phase = "saved", ![t].upload = content]
           ELSE /\ UNCHANGED temp
                /\ req' = [req EXCEPT ![t].phase = "after"]
        /\ UNCHANGED <<registry, sessions, dbvars, lastOp, envvars, txn>>

\* import_syllabus from the injection to the finally clause.  The CourseInjector
\* makes its own DatabaseSetup and session; inject_comprehensive_course closes
\* that session only when it succeeds.  A session abandoned after its course
\* was flushed keeps its transaction, and with it the write lock of the SQLite
\* file, until the garbage collector reaches it (the session and its
\* transaction refer to each other): the INSERT of a later injection then fails
\* with "database is locked", which the except clause turns into False.
import_syllabus ==
    \E t \in Threads, collected \in BOOLEAN :
        LET live == [i \in DOMAIN sessions |->
                        IF collected /\ sessions[i].kind = "injector"
                        THEN [sessions[i] EXCEPT !.lock = FALSE] ELSE sessions[i]]
            locked == \E i \in DOMAIN live : live[i].kind = "injector" /\ live[i].lock
        IN
        /\ req[t].phase = "saved"
        /\ Len(sessions) < MaxSessions
        /\ IF temp # NoFile /\ locked
           THEN /\ UNCHANGED dbvars
                /\ lastOp' = [Done("inject", "false") EXCEPT
                                 !.dbError = TRUE, !.pending = TRUE, !.blocked = TRUE]
           ELSE inject_comprehensive_course(temp)
        /\ sessions' =
               IF temp = NoFile THEN live
               ELSE Append(live,
                           [state |-> IF lastOp'.result = "ok" THEN "closed" ELSE "open",
                            holder |-> <<t, req[t].n>>, users |-> {}, kind |-> "injector",
                            lock |-> lastOp'.pending /\ ~lastOp'.dbError])
        /\ temp' = IF temp # NoFile THEN remove(temp) ELSE temp
        /\ req' = [req EXCEPT ![t].phase = "after", ![t].upload = NoFile]
        /\ UNCHANGED <<registry, envvars, txn>>

\* teardown_app_request: g.pop('db_session') and close()
teardown_db ==
    \E t \in Threads :
        /\ req[t].phase = "after"
        /\ req' = [req EXCEPT ![t].phase = "idle", ![t].db_session = 0]
        /\ sessions' = IF req[t].db_session = 0 THEN sessions
                       ELSE [sessions EXCEPT ![req[t].db_session].state = "closed"]
        /\ UNCHANGED <<registry, dbvars, lastOp, envvars, temp, txn>>

(***************************************************************************)
(* web/routes.py: create_course and edit_course run by concurrent          *)
(* requests, each thread with its own session on the one SQLite file.      *)
(* db_session.commit() is a flush, the INSERT or UPDATE that takes the     *)
(* write lock of the file and meets the UNIQUE constraint, followed by the *)
(* COMMIT that releases the lock.  A statement that finds the lock held    *)
(* waits for it; when the wait outlasts the connection's timeout it fails  *)
(* with "database is locked".  The error leaves the route as in            *)
(* create_course and edit_course: a validated form outside any try block,  *)
(* every other POST through the except clause that rolls back.             *)
(***************************************************************************)
course_flush ==
    \E t \in Threads, op \in {"create_course", "edit_course"}, formValid \in BOOLEAN,
       course_id \in 1..MaxCourseId, title \in Titles, code \in FormCodes,
       timeout \in BOOLEAN :
        LET held == \E u \in Threads \ {t} : txn[u].phase = "flushed"
            id == IF op = "create_course" THEN NextId(courses) ELSE course_id
        IN
        /\ txn[t].phase = "idle"
        /\ op = "create_course" => NextId(courses) <= MaxCourseId
        /\ op = "edit_course" => ~formValid /\ \E c \in courses : c.id = course_id
        /\ held => timeout
        /\ IF held \/ CodeTaken(courses, code, IF op = "create_course" THEN 0 ELSE course_id)
           THEN /\ UNCHANGED txn
                /\ lastOp' = IF formValid
                             THEN [Done(op, "raised") EXCEPT
                                      !.id = id, !.dbError = TRUE, !.blocked = held]
                             ELSE [Done(op, "error") EXCEPT
                                      !.id = id, !.dbError = TRUE, !.rolledBack = TRUE,
                                      !.blocked = held]
           ELSE /\ txn' = [txn EXCEPT ![t] = [phase |-> "flushed", op |-> op, id |-> id,
                                              title |-> title, code |-> code]]
                /\ lastOp' = [Done(op, "flushed") EXCEPT !.id = id]
        /\ UNCHANGED <<dbvars, envvars, req, registry, sessions, temp>>

\* the COMMIT of the flushed row
course_commit ==
    \E t \in Threads :
        /\ txn[t].phase = "flushed"
        /\ courses' =
               IF txn[t].op = "create_course"
               THEN courses \cup {[id |-> txn[t].id, title |-> txn[t].title,
                                   code |-> txn[t].code]}
               ELSE {IF c.id = txn[t].id
                     THEN [c EXCEPT !.title = txn[t].title, !.code = txn[t].code]
                     ELSE c : c \in courses}
        /\ txn' = [txn EXCEPT ![t] = [phase |-> "idle", op |-> "none", id |-> 0,
                                      title |-> <<>>, code |-> <<>>]]
        /\ lastOp' = [Done(txn[t].op, "ok") EXCEPT !.id = txn[t].id]
        /\ UNCHANGED <<lessons, outcomes, assessments, tools, assoc, llo, envvars, req,
                       registry, sessions, temp>>

(***************************************************************************)
(* interop/google_docs/client.py: GoogleDocsClient.  The repository holds  *)
(* two classes of that name: pearson/interop/google_docs/client.py and     *)
(* src/interop/google_docs/client.py ("legacy").  A field of the client is *)
(* TRUE when the attribute is set and FALSE when it is None.  The outcome  *)
(* of a call of authenticate says how far the Google libraries let it get: *)
(* no credentials (reading, refreshing or writing the token raised), no    *)
(* Docs service or no Drive service (build raised), no e-mail address      *)
(* (_get_user_email caught its error and returned None), or everything.    *)
(***************************************************************************)
Authenticate(c, outcome) ==
    IF c.class = "pearson"
    THEN IF outcome \in {"no_credentials", "no_docs", "no_drive"}
         \* except Exception: self._reset_auth_state(); return False
         THEN [client |-> [c EXCEPT !.authenticated = FALSE, !.credentials = FALSE,
                                     !.docs_service = FALSE, !.drive_service = FALSE,
                                     !.user_email = FALSE],
               result |-> FALSE]
         ELSE [client |-> [c EXCEPT !.credentials = TRUE, !.authenticated = TRUE,
                                     !.docs_service = TRUE, !.drive_service = TRUE,
                                     !.user_email = (outcome = "email")],
               result |-> TRUE]
    \* the legacy class stores the credentials and returns True; its except
    \* clause returns False and resets nothing
    ELSE IF outcome = "no_credentials"
         THEN [client |-> c, result |-> FALSE]
         ELSE [client |-> [c EXCEPT !.credentials = TRUE], result |-> TRUE]

\* __init__: the attributes are set to None / False and authenticate is tried
GoogleDocsClient ==
    \E class \in {"pearson", "legacy"},
       outcome \in {"no_credentials", "no_docs", "no_drive", "no_email", "email"} :
        /\ client.class = "none"
        /\ client' = Authenticate([client EXCEPT !.class = class], outcome).client
        /\ lastOp' = [Done("__init__", "ok") EXCEPT !.out = outcome]
        /\ UNCHANGED <<dbvars, environment, file, raw_document, reqvars>>

authenticate ==
    \E outcome \in {"no_credentials", "no_docs", "no_drive", "no_email", "email"} :
        /\ client.class # "none"
        /\ client' = Authenticate(client, outcome).client
        /\ lastOp' = [Done("authenticate",
                           IF Authenticate(client, outcome).result THEN "true" ELSE "false")
                         EXCEPT !.out = outcome]
        /\ UNCHANGED <<dbvars, environment, file, raw_document, reqvars>>

\* get_content, create_document and list_documents: _ensure_authenticated, then
\* the check of the service the method uses (the Docs service for get_content,
\* the Drive service for the other two), then the call of the Google API
get_content ==
    \E method \in {"get_content", "create_document", "list_documents"},
       outcome \in {"no_credentials", "no_docs", "no_drive", "no_email", "email"},
       api \in {"ok", "http_error"} :
        LET a == IF client.authenticated THEN [client |-> client, result |-> TRUE]
                 ELSE Authenticate(client, outcome)
            service == IF method = "get_content" THEN a.client.docs_service
                       ELSE a.client.drive_service
        IN
        /\ client.class # "none"
        /\ client' = a.client
        /\ lastOp' = [Done(method, IF ~a.result THEN "authentication_failed"
                                   ELSE IF ~service THEN "no_service"
                                   ELSE api)
                         EXCEPT !.out = outcome]
        /\ UNCHANGED <<dbvars, environment, file, raw_document, reqvars>>

(***************************************************************************)
(* The initial states: empty tables, no request in progress, no temporary  *)
(* file, no Google Docs client constructed; the ENVIRONMENT setting and    *)
(* the syllabus file are chosen once.                                      *)
(***************************************************************************)
InitStore ==
    /\ courses = {}
    /\ lessons = {}
    /\ outcomes = {}
    /\ assessments = {}
    /\ tools = {}
    /\ assoc = {}
    /\ llo = {}
    /\ lastOp = NoOp
    /\ req = [t \in Threads |-> [phase |-> "idle", n |-> 0, route |-> "none",
                                 db_session |-> 0, got |-> {}, raised |-> FALSE,
                                 upload |-> NoFile]]
    /\ registry = [t \in Threads |-> 0]
    /\ sessions = <<>>
    /\ temp = NoFile
    /\ txn = [t \in Threads |-> [phase |-> "idle", op |-> "none", id |-> 0,
                                 title |-> <<>>, code |-> <<>>]]
    /\ client = [class |-> "none", credentials |-> FALSE, docs_service |-> FALSE,
                 drive_service |-> FALSE, authenticated |-> FALSE, user_email |-> FALSE]

Init ==
    /\ InitStore
    /\ environment \in {"production", "development"}
    /\ file \in SyllabusDocs
    /\ raw_document = <<>>

\* the import is consulted for the payloads that name a document only
WebhookPost ==
    \E k \in {"empty", "drive", "drive_nofile", "document", "document_noid", "other"} :
        \E imp \in (IF k \in {"drive", "document"} THEN Imports(HookDocsCourse)
                    ELSE {[kind |-> "none", data |-> NoOut]}) :
            \E sig \in Signatures(k) : google_docs_webhook("POST", NoToken, sig, k, imp)

\* correctly signed notifications about documents with lessons
WebhookPostLessons ==
    \E imp \in Imports(HookDocsLessons) :
        google_docs_webhook("POST", NoToken, Hmac(WebhookSecret, "document"), "document", imp)

\* a call of import_from_platform outside the webhook
ImportFromPlatform ==
    \E clients \in BOOLEAN, parsers \in BOOLEAN, got \in {"raise", "none", "content"},
       parsed \in Parsed(HookDocsLessons) :
        /\ lastOp' = [Done("import_from_platform",
                           import_from_platform(clients, parsers, got, parsed).kind)
                         EXCEPT !.out = [clients |-> clients, parsers |-> parsers,
                                         got |-> got, parsed |-> parsed,
                                         data |-> import_from_platform(clients, parsers,
                                                                       got, parsed).data]]
        /\ UNCHANGED <<dbvars, envvars, reqvars>>

InjectCourse ==
    /\ inject_comprehensive_course(file)
    /\ UNCHANGED <<envvars, reqvars>>

Next ==
    \/ create_course
    \/ edit_course
    \/ delete_course
    \/ \E t \in {WebhookSecret, "wrong-token", NoToken} :
           google_docs_webhook("GET", t, NoHeader, "empty", [kind |-> "none", data |-> NoOut])
    \/ WebhookPost
    \/ create_sample_data
    \/ InjectCourse

Spec == Init /\ [][Next]_vars

(***************************************************************************)
(* The lesson-level operations, on a syllabus whose weekly table has a     *)
(* week 0.                                                                 *)
(***************************************************************************)
InitLesson ==
    /\ InitStore
    /\ environment = "production"
    /\ file = <<"#", " ", "a", "i", "\n", "#", "#", " ", "W", "e", "e", "k", "l", "y", " ", "S", "t", "r", "u", "c", "t", "u", "r", "e", "\n", "|", " ", "0", " ", "|", " ", "a", " ", "|", " ", "b", " ", "|", " ", "c", " ", "|", "\n">>
    /\ raw_document = <<>>

NextLesson ==
    \/ create_course
    \/ create_sample_data
    \/ delete_course
    \/ create_lesson
    \/ edit_lesson
    \/ delete_lesson
    \/ WebhookPostLessons
    \/ InjectCourse
    \/ export_data
    \/ legacy_export_data

SpecLesson == InitLesson /\ [][NextLesson]_vars

(***************************************************************************)
(* The model objects as the helpers of the test suite build them, and the  *)
(* deletion of a course.                                                   *)
(***************************************************************************)
InitModel ==
    /\ InitStore
    /\ environment = "production"
    /\ file = NoFile
    /\ raw_document = <<>>

NextModel ==
    \/ create_test_course
    \/ create_test_lesson
    \/ create_test_learning_outcome
    \/ create_test_assessment_format
    \/ create_test_tool
    \/ delete_course

SpecModel == InitModel /\ [][NextModel]_vars

(***************************************************************************)
(* The associations between lessons and learning outcomes.                 *)
(***************************************************************************)
NextAssoc ==
    \/ create_sample_data
    \/ create_test_learning_outcome
    \/ create_test_lesson_learning_outcome
    \/ add_learning_outcome
    \/ delete_lesson
    \/ delete_course

SpecAssoc == InitModel /\ [][NextAssoc]_vars

(***************************************************************************)
(* The web requests: their sessions, and the import of uploaded syllabus   *)
(* files.                                                                  *)
(***************************************************************************)
NextReq ==
    \/ setup_db
    \/ view_route
    \/ import_save
    \/ import_syllabus
    \/ teardown_db

SpecReq == InitModel /\ [][NextReq]_vars

(***************************************************************************)
(* The parser on every text of up to MaxLines lines drawn from Lines: the  *)
(* syllabus file holds the text, and the injector is run on it.            *)
(***************************************************************************)
MaxLines == 3

Lines ==
    {<<"#", " ", "a", "i">>,
     <<"*", "*", "C", "o", "u", "r", "s", "e", " ", "C", "o", "d", "e", "*", "*", ":", " ", "P", "Y", "1", "0", "1">>,
     <<"*", "*", "C", "o", "u", "r", "s", "e", " ", "C", "o", "d", "e", "*", "*", ":", " ">>,
     <<"#", "#", " ", "C", "o", "u", "r", "s", "e", " ", "A", "i", "m">>,
     <<"x", "y">>,
     <<>>,
     <<"-", " ", "*", "*", "L", "O", "1", "*", "*", ":", " ", "z">>,
     <<"#", "#", " ", "A", "s", "s", "e", "s", "s", "m", "e", "n", "t", " ", "F", "o", "r", "m", "a", "t", "s">>,
     <<"-", " ", "e", "s", "s", "a", "y">>,
     <<"#", "#", " ", "W", "e", "e", "k", "l", "y", " ", "S", "t", "r", "u", "c", "t", "u", "r", "e">>,
     <<"|", " ", "1", " ", "|", " ", "a", " ", "|", " ", "b", " ", "|", " ", "c", " ", "|">>,
     <<"#", "#", " ", "R", "e", "q", "u", "i", "r", "e", "d", " ", "T", "o", "o", "l", "s", " ", "&", " ", "S", "o", "f", "t", "w", "a", "r", "e">>,
     <<"S", "o", "f", "t", "w", "a", "r", "e", ":", " ", "a", ",", " ", "b">>,
     <<"*", "*", "L", "e", "v", "e", "l", "*", "*", ":", " ", "H", "N", "D">>}

\* sep.join(q)
RECURSIVE Join(_, _)
Join(sep, q) ==
    IF q = <<>> THEN <<>>
    ELSE IF Len(q) = 1 THEN q[1]
    ELSE q[1] \o sep \o Join(sep, Tail(q))

InitParse ==
    /\ InitStore
    /\ environment = "production"
    /\ file \in UNION {{Join(<<NL>>, q) : q \in [1..n -> Lines]} : n \in 0..MaxLines}
    /\ raw_document = <<>>

NextParse ==
    \/ InjectCourse
    \/ delete_course

SpecParse == InitParse /\ [][NextParse]_vars

(***************************************************************************)
(* The JSON API over a database changed by the course and lesson pages.    *)
(***************************************************************************)
NextApi ==
    \/ create_course
    \/ delete_course
    \/ create_lesson
    \/ edit_lesson
    \/ delete_lesson
    \/ api_courses
    \/ api_course_lessons

SpecApi == InitModel /\ [][NextApi]_vars

(***************************************************************************)
(* interop/google_docs/client.py: update_content, the same in both         *)
(* classes but for the check of the Docs service.  A document is the       *)
(* sequence of the endIndex values of its body's content elements, 0 for   *)
(* an element without one, or a document without a body; the content to    *)
(* write is a dictionary with the keys title and content (NoValue for an   *)
(* absent key), or None.                                                   *)
(***************************************************************************)
_get_document_end_index(document) ==
    IF document.body
    THEN Max({1} \cup {document.content[i] : i \in 1..Len(document.content)})
    ELSE 1

\* '\n'.join(text_parts)
_prepare_content_for_update(content) ==
    Join(<<NL>>,
         (IF content.title # NoValue
          THEN <<<<"#", " ">> \o content.title \o <<NL, NL>>>> ELSE <<>>)
         \o (IF content.content # NoValue THEN <<content.content>> ELSE <<>>))

\* a request list with the insertion put before the deletion
RequestsInsertFirst(end_index, text_to_insert) ==
    (IF text_to_insert # <<>>
     THEN <<[kind |-> "insertText", from |-> 1, to |-> 1, text |-> text_to_insert]>>
     ELSE <<>>)
    \o (IF end_index > 2
        THEN <<[kind |-> "deleteContentRange", from |-> 1, to |-> end_index - 1,
                text |-> <<>>]>>
        ELSE <<>>)

\* the requests of the batch update: deleteContentRange with its startIndex and
\* endIndex, insertText with its index and text
Requests(end_index, text_to_insert) ==
    (IF end_index > 2
     THEN <<[kind |-> "deleteContentRange", from |-> 1, to |-> end_index - 1,
             text |-> <<>>]>>
     ELSE <<>>)
    \o (IF text_to_insert # <<>>
        THEN <<[kind |-> "insertText", from |-> 1, to |-> 1, text |-> text_to_insert]>>
        ELSE <<>>)

\* calls is the sequence of the calls of the Docs API; get and batch are what
\* documents().get and documents().batchUpdate do when they are called
update_content ==
    \E outcome \in {"no_credentials", "no_docs", "no_drive", "no_email", "email"},
       document \in {[body |-> FALSE, content |-> <<>>], [body |-> TRUE, content |-> <<>>],
                     [body |-> TRUE, content |-> <<2>>], [body |-> TRUE, content |-> <<1, 3>>],
                     [body |-> TRUE, content |-> <<7, 0, 3>>]},
       content \in {[dict |-> FALSE, title |-> NoValue, content |-> NoValue],
                    [dict |-> TRUE, title |-> NoValue, content |-> NoValue],
                    [dict |-> TRUE, title |-> <<"a", "i">>, content |-> NoValue],
                    [dict |-> TRUE, title |-> NoValue, content |-> <<>>],
                    [dict |-> TRUE, title |-> <<"a", "i">>, content |-> <<"x">>]},
       get \in {"ok", "http_error"}, batch \in {"ok", "http_error"} :
        LET a == IF client.authenticated THEN [client |-> client, result |-> TRUE]
                 ELSE Authenticate(client, outcome)
            ready == a.result /\ a.client.docs_service
            prepared == ready /\ get = "ok" /\ content.dict
            end_index == IF ready /\ get = "ok" THEN _get_document_end_index(document) ELSE 1
            text == IF prepared THEN _prepare_content_for_update(content) ELSE <<>>
            requests == IF prepared THEN Requests(end_index, text) ELSE <<>>
        IN
        /\ client.class # "none"
        /\ client' = a.client
        /\ lastOp' =
               [Done("update_content",
                     IF prepared /\ (requests = <<>> \/ batch = "ok") THEN "true" ELSE "false")
                EXCEPT !.out =
                    [calls |-> IF ~ready THEN <<>>
                               ELSE <<[api |-> "get", requests |-> <<>>]>>
                                    \o (IF requests # <<>>
                                        THEN <<[api |-> "batchUpdate", requests |-> requests]>>
                                        ELSE <<>>),
                     end_index |-> end_index,
                     text |-> text,
                     raised |-> \/ ~a.result
                                \/ a.result /\ ~a.client.docs_service /\ client.class = "pearson"
                                \/ ready /\ get = "http_error"
                                \/ ready /\ get = "ok" /\ ~content.dict
                                \/ requests # <<>> /\ batch = "http_error"]]
        /\ UNCHANGED <<dbvars, environment, file, raw_document, reqvars>>

(***************************************************************************)
(* One Google Docs client, of either class, and the calls of its methods.  *)
(***************************************************************************)
NextClient ==
    \/ GoogleDocsClient
    \/ authenticate
    \/ get_content
    \/ update_content

SpecClient == InitModel /\ [][NextClient]_vars

(***************************************************************************)
(* The foreign keys.  No connection sets PRAGMA foreign_keys, so SQLite     *)
(* checks no foreign key and runs no ON DELETE CASCADE; the bulk deletes of *)
(* the webhook sync go past the ORM, which is what removes the association  *)
(* rows of a lesson deleted through the session.                           *)
(***************************************************************************)
NextIntegrity ==
    \/ WebhookPostLessons
    \/ create_test_learning_outcome
    \/ add_learning_outcome
    \/ delete_lesson
    \/ delete_course

SpecIntegrity == InitModel /\ [][NextIntegrity]_vars

(***************************************************************************)
(* Course creation and course editing by concurrent requests.              *)
(***************************************************************************)
NextRace ==
    \/ course_flush
    \/ course_commit

SpecRace == InitModel /\ [][NextRace]_vars

(***************************************************************************)
(* The document import, called directly and by the webhook.                *)
(***************************************************************************)
NextImport ==
    \/ ImportFromPlatform
    \/ WebhookPostLessons
    \/ delete_course

SpecImport == InitModel /\ [][NextImport]_vars

(***************************************************************************)
(* interop/google_docs/parser.py: the section scan of GoogleDocsParser.    *)
(* A document is the sequence of the elements of its body: paragraphs with *)
(* their text runs (text and text style), their namedStyleType and their   *)
(* bullet, and tables, given by the text _parse_table makes of them.  The  *)
(* one-character string "bullet" stands for the bullet sign U+2022.        *)
(***************************************************************************)
MaxElements == 4

\* str.lower(), for the letters the headings use
LowerSeq(s) ==
    LET upper == <<"A", "B">>
        lower == <<"a", "b">>
    IN [i \in 1..Len(s) |->
           IF \E k \in 1..Len(upper) : upper[k] = s[i]
           THEN lower[CHOOSE k \in 1..Len(upper) : upper[k] = s[i]]
           ELSE s[i]]

\* GoogleDocsParser._parse_paragraph: type "none" stands for None
_parse_paragraph(paragraph) ==
    LET Text(run) ==
            IF run.style = "bold" THEN <<"*", "*">> \o Strip(run.text) \o <<"*", "*">>
            ELSE IF run.style = "italic" THEN <<"*">> \o Strip(run.text) \o <<"*">>
            ELSE IF run.style = "underline"
                 THEN <<"_", "_">> \o Strip(run.text) \o <<"_", "_">>
                 ELSE run.text
        NotBlank(text) == Strip(text) # <<>>
        content_parts ==
            SelectSeq([i \in 1..Len(paragraph.runs) |-> Text(paragraph.runs[i])], NotBlank)
    IN
    IF content_parts = <<>> THEN [type |-> "none", content |-> <<>>]
    ELSE IF StartsAt(paragraph.namedStyleType, 1, <<"H", "E", "A", "D", "I", "N", "G">>)
         THEN [type |-> "heading", content |-> Join(<<" ">>, content_parts)]
         ELSE IF paragraph.bullet
              THEN [type |-> "list_item",
                    content |-> <<"bullet", " ">> \o Join(<<" ">>, content_parts)]
              ELSE [type |-> "content", content |-> Join(<<" ">>, content_parts)]

\* GoogleDocsParser._parse_document_structure: the loop over the elements from
\* element i on, with the sections built so far (a function from section names
\* to sequences of texts) and current_section (NoValue for None)
RECURSIVE _parse_document_structure(_, _, _, _)
_parse_document_structure(content, i, sections, current_section) ==
    IF i > Len(content) THEN sections
    ELSE IF content[i].kind = "table"
    THEN IF content[i].table # <<>> /\ current_section \notin {NoValue, <<>>}
         THEN _parse_document_structure(content, i + 1,
                  [sections EXCEPT ![current_section] =
                      Append(@, <<"[", "T", "a", "b", "l", "e", "]", ":", " ">>
                                \o content[i].table)],
                  current_section)
         ELSE _parse_document_structure(content, i + 1, sections, current_section)
    ELSE IF _parse_paragraph(content[i]).type = "none"
    THEN _parse_document_structure(content, i + 1, sections, current_section)
    ELSE IF _parse_paragraph(content[i]).type = "heading"
    THEN _parse_document_structure(content, i + 1,
             [n \in DOMAIN sections \cup {Strip(LowerSeq(_parse_paragraph(content[i]).content))}
                 |-> IF n = Strip(LowerSeq(_parse_paragraph(content[i]).content))
                     THEN <<>> ELSE sections[n]],
             Strip(LowerSeq(_parse_paragraph(content[i]).content)))
    ELSE IF current_section \notin {NoValue, <<>>}
    THEN _parse_document_structure(content, i + 1,
             [sections EXCEPT ![current_section] =
                 Append(@, _parse_paragraph(content[i]).content)],
             current_section)
    ELSE _parse_document_structure(content, i + 1, sections, current_section)

\* the documents of up to MaxElements elements: the headings "Ab", "ab" and
\* "b", a paragraph, a bold list item, a paragraph without text and a table
Documents ==
    LET Paragraph(text, style, named, bullet) ==
            [kind |-> "paragraph", runs |-> <<[text |-> text, style |-> style]>>,
             namedStyleType |-> named, bullet |-> bullet, table |-> <<>>]
        Elements ==
            {Paragraph(<<"A", "b", NL>>, "none", <<"H", "E", "A", "D", "I", "N", "G", "_", "1">>, FALSE),
             Paragraph(<<"a", "b", NL>>, "none", <<"H", "E", "A", "D", "I", "N", "G", "_", "2">>, FALSE),
             Paragraph(<<"b", NL>>, "none", <<"H", "E", "A", "D", "I", "N", "G", "_", "1">>, FALSE),
             Paragraph(<<"x", NL>>, "none", <<"N", "O", "R", "M", "A", "L", "_", "T", "E", "X", "T">>, FALSE),
             Paragraph(<<" ", "y", NL>>, "bold", <<>>, TRUE),
             Paragraph(<<NL>>, "none", <<"N", "O", "R", "M", "A", "L", "_", "T", "E", "X", "T">>, FALSE),
             [kind |-> "table", runs |-> <<>>, namedStyleType |-> <<>>, bullet |-> FALSE,
              table |-> <<"t">>]}
    IN UNION {[1..n -> Elements] : n \in 0..MaxElements}

\* the scan of the document, with the metadata it counts
ParseDocument ==
    /\ lastOp' =
           [Done("_parse_document_structure", "ok") EXCEPT
               !.out = [sections |-> _parse_document_structure(raw_document, 1, <<>>, NoValue),
                        total_elements |-> Len(raw_document),
                        sections_found |->
                            Cardinality(DOMAIN _parse_document_structure(raw_document, 1, <<>>,
                                                                         NoValue))]]
    /\ UNCHANGED <<dbvars, envvars, reqvars>>

InitDocs ==
    /\ InitStore
    /\ environment = "production"
    /\ file = NoFile
    /\ raw_document \in Documents

NextDocs == ParseDocument

SpecDocs == InitDocs /\ [][NextDocs]_vars

(***************************************************************************)
(* Properties.                                                             *)
(***************************************************************************)

\* C1: course codes remain unique.  In every state reachable by course
\* creation, course editing, Markdown import, webhook sync and sample-data
\* creation no two stored courses have the same course_code, and an operation
\* that met a duplicate code did not succeed.
C1_UniqueCodes ==
    /\ \A c1, c2 \in courses : c1.code = c2.code => c1 = c2
    /\ lastOp.dbError => lastOp.result \in {"raised", "error", "false"}

\* an edit that would have given a course the code of the other stored course
C1_Witness ==
    /\ lastOp.op = "edit_course"
    /\ lastOp.dbError
    /\ Cardinality(courses) = 2

StoredPositive(ls) == \A l \in ls : l.order > 0 /\ l.duration > 0

\* the week numbers of the syllabus file that are not positive
NonPositive(weeks) == {i \in 1..Len(weeks) : weeks[i].week <= 0}
BadWeeks ==
    IF file = NoFile THEN {} ELSE NonPositive(_parse_standard_weekly_structure(file))

C3_Step ==
    /\ StoredPositive(lessons')
    /\ lastOp'.op \in {"create_lesson", "google_docs_webhook"} /\ lastOp'.bad =>
           lastOp'.result = "error" /\ lessons' = lessons
    /\ lastOp'.op = "inject" /\ BadWeeks # {} =>
           lastOp'.result = "false" /\ lessons' = lessons
    /\ lastOp'.op = "edit_lesson" /\ lastOp'.bad /\ lastOp'.result = "ok" =>
           \E old \in lessons, new \in lessons' :
               /\ old.id = lastOp'.id
               /\ new.id = lastOp'.id
               /\ lastOp'.out.badOrder => new.order = old.order
               /\ lastOp'.out.badDuration => new.duration = old.duration

\* C3: lesson order and duration are positive.  Every stored lesson has
\* duration > 0 and order > 0; create_lesson, the Markdown import and the
\* webhook sync reject a non-positive value with an error value and store
\* nothing; edit_lesson ignores a non-positive value, keeps the stored value of
\* that field and may report success.
C3_PositiveLessons == [][C3_Step]_vars

\* an edit that submitted a non-positive number and reported success
C3_Witness ==
    /\ lastOp.op = "edit_lesson"
    /\ lastOp.bad
    /\ lastOp.result = "ok"

\* C3 as stated: every attempt with a non-positive order or duration, through
\* edit_lesson too, is rejected with an error value
C3_Original ==
    /\ StoredPositive(lessons)
    /\ lastOp.op \in {"create_lesson", "edit_lesson", "google_docs_webhook"} /\ lastOp.bad =>
           lastOp.result = "error"
    /\ lastOp.op = "inject" /\ BadWeeks # {} => lastOp.result = "false"

\* C4: the assessment percentage is within [0, 100].  Every stored
\* assessment format has percentage unset or between 0 and 100; a percentage
\* below 0 or above 100 raises and stores nothing; 0 and 100 are accepted and
\* stored.
C4_PercentageRange ==
    /\ \A a \in assessments :
           a.percentage = None \/ (0 <= a.percentage /\ a.percentage <= 100)
    /\ lastOp.op = "create_test_assessment_format" =>
           /\ lastOp.out.percentage # None
                 /\ (lastOp.out.percentage < 0 \/ lastOp.out.percentage > 100) =>
                 /\ lastOp.result = "raised"
                 /\ ~\E a \in assessments : a.id = lastOp.id
           /\ lastOp.out.percentage \in {0, 100} =>
                 /\ lastOp.result = "ok"
                 /\ \E a \in assessments :
                        a.id = lastOp.id /\ a.percentage = lastOp.out.percentage

\* the boundary value 100 was stored
C4_Witness ==
    /\ lastOp.op = "create_test_assessment_format"
    /\ lastOp.out.percentage = 100
    /\ lastOp.result = "ok"
    /\ \E a \in assessments : a.percentage = 100

\* C5: database errors trigger a rollback.  Whenever a database error
\* occurred inside a write operation, the session of that operation was rolled
\* back before the operation ended and no uncommitted change is left in it.
C5_RollbackOnError == lastOp.dbError => lastOp.rolledBack /\ ~lastOp.pending

RECURSIVE SumOver(_)
SumOver(rows) ==
    IF rows = {} THEN 0
    ELSE LET r == CHOOSE x \in rows : TRUE IN r.duration + SumOver(rows \ {r})

\* C6: exports round-trip the lesson count and the total duration.  For a
\* stored course export_data, in either package, returns True with
\* total_lessons the number of the course's lessons, total_duration the sum of
\* their durations and the lesson entries exactly the course's lessons in
\* ascending order; for an id that is not stored it returns False and writes
\* nothing.
C6_ExportRoundTrip ==
    lastOp.op \in {"export_data", "legacy_export_data"} =>
        IF \E c \in courses : c.id = lastOp.id
        THEN /\ lastOp.result = "true"
             /\ lastOp.out.total_lessons = Cardinality(LessonsOf(lessons, lastOp.id))
             /\ lastOp.out.total_duration = SumOver(LessonsOf(lessons, lastOp.id))
             /\ Len(lastOp.out.lessons) = Cardinality(LessonsOf(lessons, lastOp.id))
             /\ {[id |-> l.id, order |-> l.order, duration |-> l.duration] :
                     l \in LessonsOf(lessons, lastOp.id)}
                = {lastOp.out.lessons[i] : i \in 1..Len(lastOp.out.lessons)}
             /\ \A i, j \in 1..Len(lastOp.out.lessons) :
                    i < j => lastOp.out.lessons[i].order <= lastOp.out.lessons[j].order
        ELSE lastOp.result = "false" /\ ~lastOp.wrote

\* the request of a session: its thread and its number on that thread
InFlight(rid) == req[rid[1]].phase # "idle" /\ req[rid[1]].n = rid[2]

\* C7: one session per web request.  Within a request every call of
\* get_db_session returned the same session, no two requests in progress have
\* the same session object in g, and a session that is open belongs to a
\* request still in progress: when a request has ended, no session opened for
\* it is open.
C7_OneSessionPerRequest ==
    /\ \A t \in Threads : Cardinality(req[t].got) <= 1
    /\ \A t1, t2 \in Threads :
           t1 # t2 /\ req[t1].db_session # 0 => req[t1].db_session # req[t2].db_session
    /\ \A i \in 1..Len(sessions) :
           sessions[i].state = "open" => InFlight(sessions[i].holder)

Contains(s, lit) == FindFrom(s, 1, lit) # 0

\* C8: parsing failures fall back to defaults.  For every text the parser
\* gives each of title, course_code, level, instructor, language,
\* delivery_mode and aim a value, the fixed default when the text does not
\* hold what the field's pattern starts with, and lists for the learning
\* outcomes, weeks, assessment formats and tools; an import that returned
\* False had children to create or met a stored course code, never a missing
\* field alone.
C8_ParseDefaults ==
    lastOp.op = "inject" /\ file # NoFile =>
        /\ ~Contains(file, <<"#", " ">>) => lastOp.out.title = Default.Title
        /\ ~Contains(file, Lit.Code) => lastOp.out.course_code = Default.Code
        /\ ~Contains(file, Lit.Level) => lastOp.out.level = Default.Level
        /\ ~Contains(file, Lit.Instructor) => lastOp.out.instructor = Default.Instructor
        /\ ~Contains(file, Lit.Language) => lastOp.out.language = Default.Language
        /\ ~Contains(file, Lit.Delivery) => lastOp.out.delivery_mode = Default.Delivery
        /\ ~Contains(file, Lit.Aim) => lastOp.out.aim = Default.Aim
        /\ \A f \in {"title", "course_code", "level", "instructor", "language",
                     "delivery_mode", "aim"} : lastOp.out[f] # NoValue
        /\ ~Contains(file, Lit.LO) => lastOp.out.learning_outcomes = <<>>
        /\ ~Contains(file, <<"|">>) => lastOp.out.weeks = <<>>
        /\ ~Contains(file, Lit.Assessment) => lastOp.out.assessment_formats = <<>>
        /\ ~Contains(file, Lit.Tools) => lastOp.out.tools = <<>>
        /\ lastOp.result = "false" =>
               /\ ~lastOp.bad
               /\ HasChildren(lastOp.out) \/ lastOp.dbError

\* a text without a course code and without an aim was imported with the
\* defaults
C8_Witness ==
    /\ lastOp.op = "inject"
    /\ lastOp.result = "ok"
    /\ file # NoFile
    /\ ~Contains(file, Lit.Code)
    /\ Contains(file, Lit.Aim)
    /\ lastOp.out.course_code = Default.Code
    /\ lastOp.out.aim = Default.Aim
    /\ \E c \in courses : c.code = Default.Code

\* C9: every stored lesson-to-outcome association, in the association table
\* or of the LessonLearningOutcome model, has a strength among Primary,
\* Secondary and Tertiary; an operation given another strength did not store
\* it.
C9_StrengthValues ==
    /\ \A a \in assoc \cup llo : a.strength \in {"Primary", "Secondary", "Tertiary"}
    /\ lastOp.op \in {"add_learning_outcome", "create_test_lesson_learning_outcome"}
          /\ lastOp.bad => lastOp.result \in {"raised", "existing"}

\* C10: the webhook endpoint verifies requests.  A POST whose signature is
\* not the HMAC-SHA256 of the body under the webhook secret is answered 401 and
\* the document import is not called; a GET is answered 'verified' exactly
\* when its token equals the secret, and 401 otherwise.
C10_WebhookVerified ==
    lastOp.op = "google_docs_webhook" =>
        /\ lastOp.out.method = "POST" /\ ~lastOp.out.signed =>
               lastOp.status = 401 /\ ~lastOp.imported
        /\ lastOp.out.method = "GET" =>
               IF lastOp.out.tokenOk
               THEN lastOp.result = "verified" /\ lastOp.status = 200
               ELSE lastOp.result # "verified" /\ lastOp.status = 401

\* C11: GET /api/courses answers 200 with a list holding exactly one entry
\* per stored course (the empty list when there are none), each entry with
\* the id, the code and a lesson_count equal to the number of lessons stored
\* for the course; the database being available, it does not answer 500.
C11_ApiCourses ==
    lastOp.op = "api_courses" =>
        /\ lastOp.status = 200
        /\ Len(lastOp.out) = Cardinality(courses)
        /\ \A c \in courses : \E i \in 1..Len(lastOp.out) :
               /\ lastOp.out[i].id = c.id
               /\ lastOp.out[i].code = c.code
               /\ lastOp.out[i].lesson_count = Cardinality(LessonsOf(lessons, c.id))

\* C12: GET /api/course/<id>/lessons answers 200 with exactly the lessons
\* whose course_id is <id>, one entry each, in ascending order of their order
\* field; the list is empty when no course has that id; the request leaves
\* every table as it was.
C12_Step ==
    lastOp'.op = "api_course_lessons" =>
        /\ UNCHANGED dbvars
        /\ lastOp'.status = 200
        /\ Len(lastOp'.out) = Cardinality(LessonsOf(lessons, lastOp'.id))
        /\ {lastOp'.out[i].id : i \in 1..Len(lastOp'.out)}
               = Ids(LessonsOf(lessons, lastOp'.id))
        /\ \A i, j \in 1..Len(lastOp'.out) :
               i < j => lastOp'.out[i].order <= lastOp'.out[j].order
        /\ (~\E c \in courses : c.id = lastOp'.id) => lastOp'.out = <<>>

C12_ApiCourseLessons == [][C12_Step]_vars

\* the lessons of a course with two lessons, the one stored first having the
\* larger order, were listed in ascending order
C12_Witness ==
    /\ lastOp.op = "api_course_lessons"
    /\ Len(lastOp.out) = 2
    /\ lastOp.out[1].id > lastOp.out[2].id
    /\ lastOp.out[1].order < lastOp.out[2].order

\* C13: the authentication state of a GoogleDocsClient is consistent.  When
\* authenticate() returns True the client is authenticated with the Docs and
\* the Drive service set, and the call of get_content, create_document or
\* list_documents that follows does not fail for lack of a service; when it
\* returns False, authenticated is False and the credentials, the services and
\* user_email are cleared; in every state authenticated implies both services.
C13_Step ==
    /\ lastOp'.op = "authenticate" /\ lastOp'.result = "true" =>
           client'.authenticated /\ client'.docs_service /\ client'.drive_service
    /\ lastOp'.op = "authenticate" /\ lastOp'.result = "false" =>
           /\ ~client'.authenticated /\ ~client'.credentials /\ ~client'.user_email
           /\ ~client'.docs_service /\ ~client'.drive_service
    /\ /\ lastOp.op = "authenticate" /\ lastOp.result = "true"
       /\ lastOp'.op \in {"get_content", "create_document", "list_documents"}
       => lastOp'.result \notin {"no_service", "authentication_failed"}
    /\ client'.authenticated => client'.docs_service /\ client'.drive_service

C13_ClientAuthentication == [][C13_Step]_vars

\* C14 (as amended): Course.lessons cascades.  After a course is deleted and
\* the deletion committed, none of the lessons that carried the course's id as
\* course_id is stored any more, the lessons created through course_id
\* included.
C14_Step ==
    lastOp'.op = "delete_course" /\ lastOp'.result = "ok" =>
        lessons' \cap LessonsOf(lessons, lastOp'.id) = {}

C14_OriginalStep ==
    lastOp'.op = "delete_course" /\ lastOp'.result = "ok" =>
        LessonsOf(lessons, lastOp'.id) \subseteq lessons'

C15_Step ==
    /\ lastOp'.op = "google_docs_webhook"
    /\ lastOp'.imported
    /\ lastOp'.out.imp.kind = "data"
    /\ ~lastOp'.bad
    /\ ~lastOp'.dbError
    => LET data == lastOp'.out.imp.data IN
       /\ IF \E c \in courses : c.title = data.title
          THEN courses' = courses
          ELSE \E c \in courses' \ courses :
                  c.title = data.title /\ courses' = courses \cup {c}
       /\ \E c \in courses' :
             /\ c.title = data.title
             /\ Cardinality(ChildrenOf(outcomes', c.id)) = data.outcomes
             /\ Cardinality(ChildrenOf(assessments', c.id)) = data.assessments
             /\ Cardinality(ChildrenOf(tools', c.id)) = data.tools
             /\ {<<l.order, l.duration>> : l \in LessonsOf(lessons', c.id)}
                    = {<<i, data.lessons[i]>> : i \in 1..Len(data.lessons)}
             /\ Cardinality(LessonsOf(lessons', c.id)) = Len(data.lessons)

C15_SyncReplacesChildren == [][C15_Step]_vars

\* C16: the webhook sync is all-or-nothing.  When _sync_document_to_course
\* fails, also after the children of the course were cleared or a new course
\* was flushed, the answer is an error with HTTP 400, the session was rolled
\* back, and the courses, outcomes, assessments, tools and lessons are those
\* stored before the webhook arrived.
C16_Step ==
    /\ lastOp'.op = "google_docs_webhook"
    /\ lastOp'.imported
    /\ lastOp'.result = "error"
    => /\ lastOp'.status = 400
       /\ UNCHANGED dbvars
       /\ lastOp'.out.imp.kind = "data" => lastOp'.rolledBack

C17_Step ==
    /\ lastOp'.op = "inject" /\ lastOp'.result = "false" => UNCHANGED dbvars
    /\ lastOp'.op = "inject" => ~lastOp'.blocked

C17_NoPartialCourse == [][C17_Step]_vars

\* C20: the temporary upload of a syllabus import is cleaned up.  When the
\* handler of a POST to /course/import that saved the upload returns, the
\* temporary file does not exist, whatever the injection returned; a request
\* rejected before the save writes no temporary file and leaves the tables as
\* they were.
C20_Step ==
    \A t \in Threads :
        /\ req[t].phase = "saved" /\ req'[t].phase = "after" => temp' = NoFile
        /\ req[t].phase = "route" /\ req[t].route = "import" /\ req'[t].phase = "after"
              => UNCHANGED temp /\ UNCHANGED dbvars

C20_TempFileRemoved == [][C20_Step]_vars

\* the handler of an import returned after an injection that failed, and the
\* temporary file is gone
C20_Witness ==
    \E t \in Threads, i \in DOMAIN sessions :
        /\ req[t].phase = "after"
        /\ req[t].route = "import"
        /\ sessions[i].kind = "injector"
        /\ sessions[i].holder = <<t, req[t].n>>
        /\ sessions[i].state = "open"
        /\ temp = NoFile

\* C18: referential integrity holds in every reachable state.  Each stored
\* lesson, learning outcome, assessment format and tool has the course_id of
\* a stored course, and each lesson-to-learning-outcome association row has
\* the id of a stored lesson and the id of a stored learning outcome, also
\* after the deletion of a course or a lesson and after the bulk deletion and
\* re-creation of a course's children by the webhook sync.
C18_ReferentialIntegrity ==
    /\ \A r \in lessons \cup outcomes \cup assessments \cup tools :
           r.course_id \in Ids(courses)
    /\ \A a \in assoc \cup llo :
           a.lesson_id \in Ids(lessons) /\ a.lo_id \in Ids(outcomes)

\* C19: editing a lesson keeps the stored value of a numeric field that
\* cannot be applied.  When the submitted order or duration is not an integer
\* or is an integer <= 0, edit_lesson (given a title) leaves that field at its
\* stored value, commits and reports success; no edit stores a non-positive
\* order or duration.
C19_Step ==
    lastOp'.op = "edit_lesson" /\ lastOp'.result # "notfound" =>
        LET keepOrder == ~lastOp'.out.intOrder \/ lastOp'.out.badOrder
            keepDuration == ~lastOp'.out.intDuration \/ lastOp'.out.badDuration
        IN
        /\ \A l \in lessons' : l.id = lastOp'.id => l.order > 0 /\ l.duration > 0
        /\ lastOp'.out.title /\ (keepOrder \/ keepDuration) =>
              /\ lastOp'.result = "ok"
              /\ \E old \in lessons, new \in lessons' :
                    /\ old.id = lastOp'.id
                    /\ new.id = lastOp'.id
                    /\ keepOrder => new.order = old.order
                    /\ keepDuration => new.duration = old.duration
                    /\ lessons' = (lessons \ {old}) \cup {new}

C21_Step ==
    \A t \in Threads :
        req[t].phase = "saved" /\ req'[t].phase = "after" => temp = req[t].upload

\* C21: concurrent syllabus imports do not interfere.  When two import
\* requests whose files have the same secured file name are in progress at
\* once, the file a request hands to the injector holds the content that
\* request uploaded: no other request has overwritten or removed it between
\* the request's save and its parse.
C21_ImportsDoNotInterfere == [][C21_Step]_vars
C22_Step ==
    /\ \A c1, c2 \in courses' : c1.code = c2.code => c1 = c2
    /\ \A t, u \in Threads :
           txn'[t].phase = "flushed" /\ txn'[u].phase = "flushed" => t = u
    /\ lastOp'.dbError => lastOp'.result = "error" /\ lastOp'.rolledBack

C23_UpdateContent ==
    lastOp.op = "update_content" =>
        /\ lastOp.out.calls # <<>> => client.authenticated /\ client.docs_service
        /\ Cardinality({i \in 1..Len(lastOp.out.calls) :
                            lastOp.out.calls[i].api = "batchUpdate"}) <= 1
        /\ \A i \in 1..Len(lastOp.out.calls) :
               lastOp.out.calls[i].api = "batchUpdate" =>
                   /\ lastOp.out.calls[i].requests # <<>>
                   /\ \A j, k \in 1..Len(lastOp.out.calls[i].requests) :
                          /\ lastOp.out.calls[i].requests[j].kind = "deleteContentRange"
                          /\ lastOp.out.calls[i].requests[k].kind = "insertText"
                          => j < k
                   /\ (\E j \in 1..Len(lastOp.out.calls[i].requests) :
                           lastOp.out.calls[i].requests[j].kind = "deleteContentRange")
                      <=> lastOp.out.end_index > 2
                   /\ (\E j \in 1..Len(lastOp.out.calls[i].requests) :
                           lastOp.out.calls[i].requests[j].kind = "insertText")
                      <=> lastOp.out.text # <<>>
                   /\ \A j \in 1..Len(lastOp.out.calls[i].requests) :
                          IF lastOp.out.calls[i].requests[j].kind = "deleteContentRange"
                          THEN /\ lastOp.out.calls[i].requests[j].from = 1
                               /\ lastOp.out.calls[i].requests[j].to =
                                      lastOp.out.end_index - 1
                          ELSE /\ lastOp.out.calls[i].requests[j].from = 1
                               /\ lastOp.out.calls[i].requests[j].text = lastOp.out.text
        /\ lastOp.result \in {"true", "false"}
        /\ lastOp.result = "true" => ~lastOp.out.raised

\* an update that returned True after a batch update with a deletion and an
\* insertion
C23_Witness ==
    /\ lastOp.op = "update_content"
    /\ lastOp.result = "true"
    /\ Len(lastOp.out.calls) = 2
    /\ Len(lastOp.out.calls[2].requests) = 2
C24_Step ==
    /\ lastOp'.op = "import_from_platform" =>
           /\ lastOp'.result = "raise" <=> ~lastOp'.out.clients
           /\ /\ lastOp'.out.clients
              /\ \/ lastOp'.out.got # "content"
                 \/ ~lastOp'.out.parsers
                 \/ lastOp'.out.parsed.kind = "raise"
              => lastOp'.result = "none"
           /\ /\ lastOp'.out.clients
              /\ lastOp'.out.got = "content"
              /\ lastOp'.out.parsers
              /\ lastOp'.out.parsed.kind = "data"
              => lastOp'.result = "data" /\ lastOp'.out.data = lastOp'.out.parsed.data
    /\ lastOp'.op = "google_docs_webhook" /\ lastOp'.out.imp.kind # "data" =>
           lastOp'.result = "error" /\ UNCHANGED dbvars

\* C24: import_from_platform raises ValueError exactly when no client is
\* registered for the platform; with a client it returns None when the client
\* returns no content, when no parser is registered, or when the client or the
\* parser raises, and the parser's course structure otherwise; in the webhook
\* every failed import gives an error result and leaves the database as it
\* was.
C24_ImportFromPlatform == [][C24_Step]_vars

\* an import that returned None because the parser raised, with a course in the
\* database
C24_Witness ==
    /\ lastOp.op = "import_from_platform"
    /\ lastOp.result = "none"
    /\ lastOp.out.clients /\ lastOp.out.parsers
    /\ lastOp.out.got = "content"
    /\ lastOp.out.parsed.kind = "raise"
    /\ courses # {}
C25_Step ==
    /\ \A a, b \in assoc' : a.lesson_id = b.lesson_id /\ a.lo_id = b.lo_id => a = b
    /\ lastOp'.op = "add_learning_outcome" =>
           IF lastOp'.out.attached
           THEN /\ Cardinality({a \in assoc' : /\ a.lesson_id = lastOp'.id
                                                /\ a.lo_id = lastOp'.out.lo_id}) = 1
                /\ \A a \in assoc :
                       a.lesson_id = lastOp'.id /\ a.lo_id = lastOp'.out.lo_id => a \in assoc'
                /\ (\A a \in assoc :
                        a.lesson_id # lastOp'.id \/ a.lo_id # lastOp'.out.lo_id)
                   => [lesson_id |-> lastOp'.id, lo_id |-> lastOp'.out.lo_id,
                       strength |-> lastOp'.out.strength] \in assoc'
           ELSE lastOp'.result = "raised" /\ UNCHANGED dbvars

\* C25: Lesson.add_learning_outcome is idempotent.  Called for a lesson
\* attached to a session, it leaves exactly one association row for the pair:
\* the first call stores the strength it is given and a later call changes
\* nothing; no state holds two association rows for one (lesson, outcome)
\* pair; called for a lesson attached to no session it raises and stores
\* nothing.
C25_AddIdempotent == [][C25_Step]_vars

\* a repeated call with another strength than the one stored
C25_Witness ==
    /\ lastOp.op = "add_learning_outcome"
    /\ lastOp.result = "existing"
    /\ \E a \in assoc :
           /\ a.lesson_id = lastOp.id
           /\ a.lo_id = lastOp.out.lo_id
           /\ a.strength # lastOp.out.strength
\* the section names of the headings of a document
Headings(content) ==
    {Strip(LowerSeq(_parse_paragraph(content[i]).content)) :
        i \in {k \in 1..Len(content) : /\ content[k].kind = "paragraph"
                                        /\ _parse_paragraph(content[k]).type = "heading"}}

\* the texts, in document order, of the paragraphs and tables from element i on
\* whose nearest preceding heading names the section name; heading is the
\* section named by the nearest heading before element i
RECURSIVE Under(_, _, _, _)
Under(content, i, name, heading) ==
    IF i > Len(content) THEN <<>>
    ELSE IF content[i].kind = "table"
    THEN (IF content[i].table # <<>> /\ heading = name
          THEN <<<<"[", "T", "a", "b", "l", "e", "]", ":", " ">> \o content[i].table>>
          ELSE <<>>)
         \o Under(content, i + 1, name, heading)
    ELSE IF _parse_paragraph(content[i]).type = "heading"
    THEN Under(content, i + 1, name, Strip(LowerSeq(_parse_paragraph(content[i]).content)))
    ELSE (IF _parse_paragraph(content[i]).type # "none" /\ heading = name
          THEN <<_parse_paragraph(content[i]).content>>
          ELSE <<>>)
         \o Under(content, i + 1, name, heading)

C26_Step ==
    lastOp'.op = "_parse_document_structure" =>
        /\ DOMAIN lastOp'.out.sections = Headings(raw_document)
        /\ \A n \in Headings(raw_document) :
               lastOp'.out.sections[n] = Under(raw_document, 1, n, NoValue)
        /\ lastOp.op = "_parse_document_structure" => lastOp'.out = lastOp.out

\* C26: the section scan loses no content that follows a heading.  In the
\* sections of _parse_document_structure every paragraph with text and every
\* table that comes after a heading appears exactly once, in the section named
\* by the nearest preceding heading and in document order; what comes before
\* the first heading is in no section; a second scan of the same document
\* gives the same sections.
C26_SectionScan == [][C26_Step]_vars
====
